---- MODULE Spec2Model ----
(***************************************************************************)
(* Organization-context resolution, the impersonation session store, the   *)
(* bucket filter and the organization / GroundX route handlers of the      *)
(* gateway.                                                                *)
(*                                                                         *)
(* A request is handled in two steps, as express runs it: the router's     *)
(* middleware (authenticateSupabaseUser, handleOrganizationOverride)       *)
(* attaches req.user and req.organizationContext and calls next(); the     *)
(* route handler then answers.  `req` is the request between the two       *)
(* steps, `resp` the answer of the request handled last.                   *)
(*                                                                         *)
(* Spec       drives the organization handlers behind                      *)
(*            authenticateSupabaseUser, the wiring the router's own note   *)
(*            stipulates (routes/organizations: "Auth middleware will be   *)
(*            applied when registering routes in main server").            *)
(* SpecMounted drives them as index.ts registers them: with no middleware  *)
(*            in front.                                                    *)
(*                                                                         *)
(* JavaScript strings that the code searches (includes, toLowerCase) are   *)
(* sequences of one-character strings; strings that are only compared are  *)
(* TLA+ strings.                                                           *)
(***************************************************************************)
EXTENDS Integers, Sequences, FiniteSets, TLC

\* ------------------------------------------------------------------ bounds
\* The clock takes the values 0, TickMs, ..., MaxTicks * TickMs.
MaxTicks == 3
\* Longest bucket list the GroundX bucket listing answers with.
MaxBuckets == 2

\* ----------------------------------------------------------------- strings
UpperCase == <<"A","B","C","D","E","F","G","H","I","J","K","L","M",
               "N","O","P","Q","R","S","T","U","V","W","X","Y","Z">>
LowerCase == <<"a","b","c","d","e","f","g","h","i","j","k","l","m",
               "n","o","p","q","r","s","t","u","v","w","x","y","z">>

\* String.prototype.toLowerCase, one character.
LowerChar(c) ==
    IF \E i \in 1..Len(UpperCase) : UpperCase[i] = c
    THEN LowerCase[CHOOSE i \in 1..Len(UpperCase) : UpperCase[i] = c]
    ELSE c

\* String.prototype.toLowerCase.
toLowerCase(s) == [i \in 1..Len(s) |-> LowerChar(s[i])]

\* String.prototype.includes: p occurs in s as a contiguous substring.
includes(s, p) ==
    \E i \in 0..(Len(s) - Len(p)) : SubSeq(s, i + 1, i + Len(p)) = p

\* null / undefined of the source.
Null == [null |-> TRUE]

\* ------------------------------------------------------- identity provider
Subjects == {"u1", "u2"}

AtQig == <<"@","q","i","g",".">>
AtQualityImprovementGroup ==
    <<"@","q","u","a","l","i","t","y","i","m","p","r","o","v","e","m","e","n","t",
      "g","r","o","u","p",".">>

EmailAdmin == <<"a">> \o AtQig \o <<"c","o","m">>
EmailAdminLong == <<"b">> \o AtQualityImprovementGroup \o <<"o","r","g">>
\* Holds "qig" but neither administrative domain marker.
EmailRegular == <<"q","i","g","@","a","c","m","e",".","i","o">>
EmailPlain == <<"b","@","a","c","m","e",".","i","o">>

\* The emails the identity provider may hold for a subject.
EmailsOf(u) == IF u = "u1" THEN {EmailAdmin, EmailRegular} ELSE {EmailPlain, EmailAdminLong}

\* ----------------------------------------------- tenant configuration rows
NameAustin == <<"A","u","s","t","i","n"," ","I","n","d","u","s","t","r","i","e","s">>
NameAcme == <<"A","c","m","e">>
NameConstructor == <<"c","o","n","s","t","r","u","c","t","o","r">>
NameQIG == <<"Q","I","G">>

\* Rows of the client_configurations table; is_active is the variable `active`.
ClientConfigurations ==
    { [organization_id |-> "org-austin", client_name |-> NameAustin,
       client_type |-> "construction", created_by |-> "u1"],
      [organization_id |-> "org-42", client_name |-> NameAcme,
       client_type |-> "default", created_by |-> "u2"],
      [organization_id |-> "org-ctor", client_name |-> NameConstructor,
       client_type |-> "default", created_by |-> "u2"] }

OrgIds == {r.organization_id : r \in ClientConfigurations}

\* Organization ids a switch request may name: configured ones, one that no
\* row holds, and the missing id (undefined / empty).
RequestOrgIds == {"org-austin", "org-42", "org-none", ""}

\* Rows that tenant configuration storage activates and deactivates.
ToggledOrgIds == {"org-austin", "org-42"}

\* Organization ids canAccessOrganization is evaluated on.
ProbeOrgIds == OrgIds \cup {"qig-org", "org-none", ""}

\* ------------------------------------------------------------------- state
VARIABLES
    now,                   \* Date.now(), in ms
    email,                 \* identity provider: subject id -> email
    active,                \* organization ids whose row has is_active = true
    organizationSessions,  \* the Map of the session store, in insertion order
    req,                   \* the request the middleware handed to next(), or Null
    resp,                  \* the answer of the request handled last, or Null
    lastSwitch             \* history: the last organization command as mounted

vars == <<now, email, active, organizationSessions, req, resp, lastSwitch>>

\* 24 * 60 * 60 * 1000
SessionTtlMs == 24 * 60 * 60 * 1000
\* The clock advances in half windows.
TickMs == 12 * 60 * 60 * 1000

\* ------------------------------------------------------------- Map (store)
\* The Map is the set of its entries [key, value]; the code never iterates it.
MapHas(m, k) == \E e \in m : e.key = k

\* Map.prototype.get: the value stored under the key, or undefined.
MapGet(m, k) == IF MapHas(m, k) THEN (CHOOSE e \in m : e.key = k).value ELSE Null

\* Map.prototype.delete.
MapDelete(m, k) == {e \in m : e.key # k}

\* Map.prototype.set: the entry of the key is replaced.
MapSet(m, k, v) == MapDelete(m, k) \cup {[key |-> k, value |-> v]}

\* Faulty variant: a session that exists is kept.
setOrganizationSessionIfAbsent(sessions, userId, organizationId, t) ==
    IF MapHas(sessions, userId) THEN sessions
    ELSE MapSet(sessions, userId,
                [activeOrganizationId |-> organizationId, timestamp |-> t])

\* setOrganizationSession(userId, organizationId)
setOrganizationSession(sessions, userId, organizationId, t) ==
    MapSet(sessions, userId, [activeOrganizationId |-> organizationId, timestamp |-> t])

\* Faulty variant: the whole store is cleared.
clearEveryOrganizationSession(sessions, userId) == {}

\* clearOrganizationSession(userId)
clearOrganizationSession(sessions, userId) == MapDelete(sessions, userId)

\* Faulty variant: a session of exactly 24 hours is still valid.
getOrganizationSessionInclusive(sessions, userId, t) ==
    LET session == MapGet(sessions, userId) IN
    IF session # Null
    THEN IF t - session.timestamp <= SessionTtlMs
         THEN [result |-> session, sessions |-> sessions]
         ELSE [result |-> Null, sessions |-> MapDelete(sessions, userId)]
    ELSE [result |-> Null, sessions |-> sessions]

\* getOrganizationSession(userId): [result, sessions]
getOrganizationSession(sessions, userId, t) ==
    LET session == MapGet(sessions, userId) IN
    IF session # Null
    THEN LET sessionAge == t - session.timestamp IN
         IF sessionAge < SessionTtlMs
         THEN [result |-> session, sessions |-> sessions]
         ELSE [result |-> Null, sessions |-> MapDelete(sessions, userId)]
    ELSE [result |-> Null, sessions |-> sessions]

\* ------------------------------------------- tenant configuration queries
\* .from('client_configurations').eq('created_by', id).eq('is_active', true)
\* .limit(1): the possible answers, `fail` being an error of the storage.
ClientConfigsCreatedBy(act, userId, fail) ==
    LET rows == {r \in ClientConfigurations :
                    r.created_by = userId /\ r.organization_id \in act} IN
    IF fail THEN {[data |-> <<>>, error |-> TRUE]}
    ELSE IF rows = {} THEN {[data |-> <<>>, error |-> FALSE]}
    ELSE {[data |-> <<r>>, error |-> FALSE] : r \in rows}

\* Faulty variant: an error of the storage goes unnoticed.
ClientConfigOfOrganizationUnfailing(act, organizationId, fail) ==
    LET rows == {r \in ClientConfigurations :
                    r.organization_id = organizationId /\ r.organization_id \in act} IN
    IF Cardinality(rows) # 1 THEN [data |-> Null, error |-> TRUE]
    ELSE [data |-> CHOOSE r \in rows : TRUE, error |-> FALSE]

\* .eq('organization_id', id).eq('is_active', true).single(): no row (or an
\* error of the storage) answers with an error and no data.
ClientConfigOfOrganization(act, organizationId, fail) ==
    LET rows == {r \in ClientConfigurations :
                    r.organization_id = organizationId /\ r.organization_id \in act} IN
    IF fail \/ Cardinality(rows) # 1 THEN [data |-> Null, error |-> TRUE]
    ELSE [data |-> CHOOSE r \in rows : TRUE, error |-> FALSE]

\* ------------------------------------------------- authenticateSupabaseUser
\* user.email && (email.includes('@qig.') || email.includes('@qualityimprovementgroup.'))
IsQIG(userEmail) ==
    /\ userEmail # <<>>
    /\ \/ includes(userEmail, AtQig)
       \/ includes(userEmail, AtQualityImprovementGroup)

QIGOrganization == [id |-> "qig-org", name |-> NameQIG, type |-> "enterprise"]

OrganizationOf(config) ==
    [id |-> config.organization_id, name |-> config.client_name,
     type |-> config.client_type]

\* userOrganizationInfo: the home organization, or null.
UserOrganizationInfo(isQIG, clientConfigs) ==
    IF isQIG THEN QIGOrganization
    ELSE IF clientConfigs.error THEN Null
    ELSE IF Len(clientConfigs.data) > 0
         THEN OrganizationOf(clientConfigs.data[1])
    ELSE Null

\* Faulty variant: the session store is consulted for every assigned user.
ReadsSessionOfAnyUser(isQIG, userOrganizationInfo) == userOrganizationInfo # Null

\* The condition under which the resolver consults the session store.
ReadsSession(isQIG, userOrganizationInfo) == isQIG /\ userOrganizationInfo # Null

\* The resolver's own read of the session store: the organization id of the
\* subject's session when the session is younger than 24 hours, "" otherwise.
SessionOrganizationId(isQIG, userOrganizationInfo, sessions, userId, t) ==
    IF ReadsSession(isQIG, userOrganizationInfo)
    THEN LET orgSession == MapGet(sessions, userId) IN
         IF orgSession # Null /\ t - orgSession.timestamp < SessionTtlMs
         THEN orgSession.activeOrganizationId
         ELSE ""
    ELSE ""

\* activeOrganization: the home organization unless an unexpired session of a
\* QIG admin names an organization that is resolved again.
ActiveOrganization(isQIG, userOrganizationInfo, sessions, userId, t, act, failSwitched) ==
    LET organizationId ==
            SessionOrganizationId(isQIG, userOrganizationInfo, sessions, userId, t) IN
    IF organizationId # ""
    THEN LET switchedOrg == ClientConfigOfOrganization(act, organizationId, failSwitched) IN
         IF switchedOrg.data # Null /\ ~switchedOrg.error
         THEN OrganizationOf(switchedOrg.data)
         ELSE userOrganizationInfo
    ELSE userOrganizationInfo

\* Faulty variant: every read of the store by the resolver removes the entry.
SessionsAfterResolveAlways(isQIG, userOrganizationInfo, sessions, userId, t) ==
    IF ReadsSession(isQIG, userOrganizationInfo)
    THEN MapDelete(sessions, userId)
    ELSE sessions

\* The session store after the resolver's read: an expired session is removed.
SessionsAfterResolve(isQIG, userOrganizationInfo, sessions, userId, t) ==
    IF ReadsSession(isQIG, userOrganizationInfo)
    THEN LET orgSession == MapGet(sessions, userId) IN
         IF orgSession # Null /\ ~(t - orgSession.timestamp < SessionTtlMs)
         THEN MapDelete(sessions, userId)
         ELSE sessions
    ELSE sessions

\* Faulty variant: a missing organization is reported under an id.
IdOrUnknown(organization) ==
    IF organization = Null THEN "unknown" ELSE organization.id

\* x?.id || ''
IdOrEmpty(org) == IF org = Null THEN "" ELSE org.id

\* x?.name || ''
NameOrEmpty(org) == IF org = Null THEN <<>> ELSE org.name

\* Faulty variant: the id is compared with the context's userOrganizationId,
\* which is '' when no assignment was found.
CanAccessByHomeId(isQIG, userOrganizationInfo, orgId) ==
    isQIG \/ orgId = IdOrEmpty(userOrganizationInfo)

\* canAccessOrganization: isQIG || orgId === userOrganizationInfo?.id
CanAccessOrganization(isQIG, userOrganizationInfo, orgId) ==
    isQIG \/ (userOrganizationInfo # Null /\ orgId = userOrganizationInfo.id)

\* The organizationContext object; canAccessOrganization is tabulated on
\* ProbeOrgIds.
OrganizationContext(isQIG, userOrganizationInfo, activeOrganization) ==
    [userOrganizationId |-> IdOrEmpty(userOrganizationInfo),
     userOrganizationName |-> NameOrEmpty(userOrganizationInfo),
     activeOrganizationId |-> IdOrEmpty(activeOrganization),
     activeOrganizationName |-> NameOrEmpty(activeOrganization),
     isQIGAdmin |-> isQIG,
     canAccessOrganization |->
        [orgId \in ProbeOrgIds |->
            CanAccessOrganization(isQIG, userOrganizationInfo, orgId)]]

\* The middleware past token verification: what it attaches to the request and
\* what it leaves in the session store.
authenticateSupabaseUser(userId, userEmail, clientConfigs, failSwitched, sessions, t, act) ==
    LET isQIG == IsQIG(userEmail)
        userOrganizationInfo == UserOrganizationInfo(isQIG, clientConfigs)
        activeOrganization ==
            ActiveOrganization(isQIG, userOrganizationInfo, sessions, userId, t,
                               act, failSwitched)
    IN [user |-> [id |-> userId, email |-> userEmail,
                  organization |-> activeOrganization, isQIG |-> isQIG],
        organizationContext |->
            OrganizationContext(isQIG, userOrganizationInfo, activeOrganization),
        sessions |->
            SessionsAfterResolve(isQIG, userOrganizationInfo, sessions, userId, t),
        userOrganizationInfo |-> userOrganizationInfo,
        sessionOrganizationId |->
            SessionOrganizationId(isQIG, userOrganizationInfo, sessions, userId, t)]

\* handleOrganizationOverride: the x-organization-override header of a QIG
\* user is recorded on req.user.organization as override_id.
handleOrganizationOverride(user, organizationOverride) ==
    IF organizationOverride # "" /\ user # Null /\ user.isQIG
    THEN [user EXCEPT !.organization =
            IF user.organization = Null
            THEN [override_id |-> organizationOverride]
            ELSE [id |-> user.organization.id, name |-> user.organization.name,
                  type |-> user.organization.type,
                  override_id |-> organizationOverride]]
    ELSE user

\* ------------------------------------------------------ requests, answers
\* What a handler sees of a request no middleware has touched.
BareRequest(router, userId) ==
    [router |-> router, subject |-> userId, user |-> Null,
     organizationContext |-> Null, userOrganizationInfo |-> Null,
     sessionOrganizationId |-> ""]

Response(op, userId, status, error, input, body) ==
    [op |-> op, subject |-> userId, status |-> status, error |-> error,
     input |-> input, body |-> body]

\* ------------------------------------------------- routes/organizations.ts
\* Faulty variant: the target organization is not looked up.
switchHandlerUnverified(r, organizationId, fail, sessions, t, act) ==
    IF r.organizationContext = Null \/ ~r.organizationContext.isQIGAdmin
    THEN [status |-> 403, error |-> "Only QIG administrators can switch organizations",
          body |-> Null, sessions |-> sessions]
    ELSE IF organizationId = ""
    THEN [status |-> 400, error |-> "Organization ID is required",
          body |-> Null, sessions |-> sessions]
    ELSE [status |-> 200, error |-> "",
          body |-> [activeOrganization |-> [id |-> organizationId, name |-> <<>>,
                                            type |-> ""],
                    userOrganization |->
                        [id |-> r.organizationContext.userOrganizationId,
                         name |-> r.organizationContext.userOrganizationName]],
          sessions |-> setOrganizationSession(sessions, r.user.id, organizationId, t)]

\* POST /organizations/switch: [status, error, body, sessions]
switchHandler(r, organizationId, fail, sessions, t, act) ==
    IF r.organizationContext = Null \/ ~r.organizationContext.isQIGAdmin
    THEN [status |-> 403, error |-> "Only QIG administrators can switch organizations",
          body |-> Null, sessions |-> sessions]
    ELSE IF organizationId = ""
    THEN [status |-> 400, error |-> "Organization ID is required",
          body |-> Null, sessions |-> sessions]
    ELSE LET targetOrg == ClientConfigOfOrganization(act, organizationId, fail) IN
         IF targetOrg.error \/ targetOrg.data = Null
         THEN [status |-> 404, error |-> "Organization not found",
               body |-> Null, sessions |-> sessions]
         ELSE IF r.user = Null
         THEN [status |-> 500, error |-> "Internal server error",
               body |-> Null, sessions |-> sessions]
         ELSE [status |-> 200, error |-> "",
               body |-> [activeOrganization |-> OrganizationOf(targetOrg.data),
                         userOrganization |->
                            [id |-> r.organizationContext.userOrganizationId,
                             name |-> r.organizationContext.userOrganizationName]],
               sessions |-> setOrganizationSession(sessions, r.user.id, organizationId, t)]

\* POST /organizations/reset: [status, error, body, sessions]
resetHandler(r, sessions) ==
    IF r.organizationContext = Null \/ ~r.organizationContext.isQIGAdmin
    THEN [status |-> 403, error |-> "Only QIG administrators can reset organizations",
          body |-> Null, sessions |-> sessions]
    ELSE IF r.user = Null
    THEN [status |-> 500, error |-> "Internal server error",
          body |-> Null, sessions |-> sessions]
    ELSE [status |-> 200, error |-> "",
          body |-> [activeOrganization |->
                        [id |-> r.organizationContext.userOrganizationId,
                         name |-> r.organizationContext.userOrganizationName]],
          sessions |-> clearOrganizationSession(sessions, r.user.id)]

\* GET /organizations/current: [status, error, body]
currentHandler(r) ==
    IF r.organizationContext = Null
    THEN [status |-> 401, error |-> "Authentication required", body |-> Null]
    ELSE [status |-> 200, error |-> "",
          body |-> [userOrganization |->
                        [id |-> r.organizationContext.userOrganizationId,
                         name |-> r.organizationContext.userOrganizationName],
                    activeOrganization |->
                        [id |-> r.organizationContext.activeOrganizationId,
                         name |-> r.organizationContext.activeOrganizationName],
                    isQIGAdmin |-> r.organizationContext.isQIGAdmin,
                    isActingAsOtherOrg |->
                        r.organizationContext.activeOrganizationId
                            # r.organizationContext.userOrganizationId]]

\* ------------------------------------------------------- routes/groundx.ts
NameSpinakr == <<"S","p","i","n","a","k","r">>

\* orgToBucketMapping: the own properties of the object literal.
orgToBucketMapping ==
    [organizationName \in {NameAustin, NameQIG, NameSpinakr} |->
        IF organizationName = NameAustin
        THEN <<NameAustin, <<"A","u","s","t","i","n">>, <<"A","I">> >>
        ELSE IF organizationName = NameQIG
        THEN <<NameQIG, <<"Q","u","a","l","i","t","y"," ","I","m","p","r","o","v","e",
                          "m","e","n","t"," ","G","r","o","u","p">> >>
        ELSE <<NameSpinakr, <<"S","p","i","n","a","k","e","r">>, <<"S","p","n","k","r">> >>]

\* Property names every object literal inherits from Object.prototype; reading
\* one of them from orgToBucketMapping yields a function or an object, which
\* is truthy and has no `some`.
ObjectPrototypeKeys ==
    { NameConstructor,
      <<"t","o","S","t","r","i","n","g">>,
      <<"v","a","l","u","e","O","f">>,
      <<"_","_","p","r","o","t","o","_","_">> }

\* orgToBucketMapping[organizationName] || [organizationName]:
\* [isArray, patterns]
BucketPatterns(organizationName) ==
    IF organizationName \in DOMAIN orgToBucketMapping
    THEN [isArray |-> TRUE, patterns |-> orgToBucketMapping[organizationName]]
    ELSE IF organizationName \in ObjectPrototypeKeys
    THEN [isArray |-> FALSE, patterns |-> <<>>]
    ELSE [isArray |-> TRUE, patterns |-> <<organizationName>>]

\* The buckets the GroundX listing may hold: bucket 3 has a title but no name,
\* bucket 4 has neither.
BucketCatalog ==
    { [bucket_id |-> 1, name |-> <<"A","u","s","t","i","n"," ","D","o","c","s">>,
       title |-> <<>>],
      [bucket_id |-> 2, name |-> <<"A","C","M","E"," ","p","l","a","n">>, title |-> <<>>],
      [bucket_id |-> 3, name |-> <<>>, title |-> <<"R","a","i","n">>],
      [bucket_id |-> 4, name |-> <<>>, title |-> <<>>] }

\* bucketAny.name || bucketAny.title || bucketAny.bucketName || ''
BucketName(bucket) == IF bucket.name # <<>> THEN bucket.name ELSE bucket.title

\* The callback of response.buckets.filter.
BucketMatches(bucket, patterns) ==
    \E i \in 1..Len(patterns) :
        includes(toLowerCase(BucketName(bucket)), toLowerCase(patterns[i]))

\* req.user?.organization?.name, '' standing for undefined as well
OrganizationName(user) ==
    IF user = Null \/ user.organization = Null THEN <<>> ELSE user.organization.name

\* Faulty variant: the buckets are filtered for QIG users too.
FilterBucketsForEveryone(buckets, isQIG, organizationName) ==
    IF organizationName # <<>>
    THEN LET p == BucketPatterns(organizationName) IN
         IF ~p.isArray /\ Len(buckets) > 0
         THEN [threw |-> TRUE, buckets |-> <<>>]
         ELSE [threw |-> FALSE,
               buckets |-> SelectSeq(buckets, LAMBDA b : BucketMatches(b, p.patterns))]
    ELSE [threw |-> FALSE, buckets |-> buckets]

\* The organization filter of GET /groundx/buckets: [threw, buckets]; the
\* callback throws a TypeError on the first bucket when the patterns are no
\* array.
FilterBuckets(buckets, isQIG, organizationName) ==
    IF ~isQIG /\ organizationName # <<>>
    THEN LET p == BucketPatterns(organizationName) IN
         IF ~p.isArray /\ Len(buckets) > 0
         THEN [threw |-> TRUE, buckets |-> <<>>]
         ELSE [threw |-> FALSE,
               buckets |-> SelectSeq(buckets, LAMBDA b : BucketMatches(b, p.patterns))]
    ELSE [threw |-> FALSE, buckets |-> buckets]

\* The buckets as answered: id and display name, `Bucket <id>` for no name.
ProcessedBucket(bucket) ==
    [id |-> bucket.bucket_id,
     name |-> IF BucketName(bucket) # <<>> THEN BucketName(bucket)
              ELSE <<"B","u","c","k","e","t"," ", ToString(bucket.bucket_id)>>]

\* GET /groundx/buckets: [status, error, body]; listing is the answer of
\* client.buckets.list().
bucketsHandler(r, listing) ==
    IF listing.kind = "throws"
    THEN [status |-> 500, error |-> "GroundX API error", body |-> Null]
    ELSE IF listing.kind = "invalid"
    THEN [status |-> 500, error |-> "Invalid response structure from GroundX API",
          body |-> Null]
    ELSE LET organizationName == OrganizationName(r.user)
             isQIG == r.user # Null /\ r.user.isQIG
             filtered == FilterBuckets(listing.buckets, isQIG, organizationName) IN
         IF filtered.threw
         THEN [status |-> 500, error |-> "bucketPatterns.some is not a function",
               body |-> Null]
         ELSE [status |-> 200, error |-> "",
               body |-> [buckets |-> [i \in 1..Len(filtered.buckets) |->
                                         ProcessedBucket(filtered.buckets[i])],
                         organization |-> organizationName]]

\* parseInt(bucketId) on the digits 0-9: the integer of the leading digits,
\* NaN when the string does not start with a digit.
Digits == <<"0","1","2","3","4","5","6","7","8","9">>

IsDigit(c) == \E d \in 1..Len(Digits) : Digits[d] = c

DigitValue(c) == (CHOOSE d \in 1..Len(Digits) : Digits[d] = c) - 1

RECURSIVE ParseDigits(_, _)
ParseDigits(str, acc) ==
    IF str # <<>> /\ IsDigit(Head(str))
    THEN ParseDigits(Tail(str), acc * 10 + DigitValue(Head(str)))
    ELSE acc

parseInt(str) ==
    IF str # <<>> /\ IsDigit(Head(str))
    THEN [nan |-> FALSE, value |-> ParseDigits(str, 0)]
    ELSE [nan |-> TRUE, value |-> 0]

\* POST /groundx/search: [status, error, body, calls]; found is the answer of
\* client.search.content, calls the upstream calls the handler issued.
searchHandler(r, query, bucketId, found) ==
    IF query = "" \/ bucketId = <<>>
    THEN [status |-> 400, error |-> "Query and bucketId are required", body |-> Null,
          calls |-> <<>>]
    ELSE LET call == [service |-> "search.content", bucketId |-> parseInt(bucketId)] IN
         IF found.kind = "throws"
         THEN [status |-> 500, error |-> "GroundX API error", body |-> Null,
               calls |-> <<call>>]
         ELSE IF found.kind = "missing"
         THEN [status |-> 200, error |-> "", body |-> [count |-> 0], calls |-> <<call>>]
         ELSE [status |-> 200, error |-> "", body |-> [count |-> found.count],
               calls |-> <<call>>]

\* POST /groundx/rag: [status, error, body, calls]; completed is the outcome of
\* chat.completions.create.
ragHandler(r, query, bucketId, found, completed) ==
    IF r.user = Null
    THEN [status |-> 401, error |-> "Authentication required", body |-> Null,
          calls |-> <<>>]
    ELSE IF query = "" \/ bucketId = <<>>
    THEN [status |-> 400, error |-> "Query and bucketId are required", body |-> Null,
          calls |-> <<>>]
    ELSE LET call == [service |-> "search.content", bucketId |-> parseInt(bucketId)]
             generation == [service |-> "chat.completions", bucketId |-> parseInt(bucketId)]
         IN
         IF found.kind = "throws"
         THEN [status |-> 500, error |-> "GroundX API error", body |-> Null,
               calls |-> <<call>>]
         ELSE IF found.kind = "missing"
         THEN [status |-> 500, error |-> "No search results from GroundX", body |-> Null,
               calls |-> <<call>>]
         ELSE IF completed = "throws"
         THEN [status |-> 500, error |-> "OpenAI API error", body |-> Null,
               calls |-> <<call, generation>>]
         ELSE [status |-> 200, error |-> "", body |-> [count |-> found.count],
               calls |-> <<call, generation>>]

\* ------------------------------------------------------------------ Init
Init ==
    /\ now = 0
    /\ email = [u \in Subjects |-> IF u = "u1" THEN EmailAdmin ELSE EmailPlain]
    /\ active = OrgIds
    /\ organizationSessions = {}
    /\ req = Null
    /\ resp = Null
    /\ lastSwitch = Null

\* ----------------------------------------------------------- environment
\* Time passes.
Tick ==
    /\ req = Null
    /\ now + TickMs <= MaxTicks * TickMs
    /\ now' = now + TickMs
    /\ resp' = Null
    /\ UNCHANGED <<email, active, organizationSessions, req, lastSwitch>>

\* The identity provider records a new email for a subject.
ChangeEmail(u, e) ==
    /\ req = Null
    /\ e # email[u]
    /\ email' = [email EXCEPT ![u] = e]
    /\ resp' = Null
    /\ UNCHANGED <<now, active, organizationSessions, req, lastSwitch>>

\* Tenant configuration storage activates or deactivates a row.
ToggleActive(o) ==
    /\ req = Null
    /\ active' = IF o \in active THEN active \ {o} ELSE active \cup {o}
    /\ resp' = Null
    /\ UNCHANGED <<now, email, organizationSessions, req, lastSwitch>>

\* -------------------------------------------------------------- middleware
\* authenticateSupabaseUser answers 401 itself when the Authorization header
\* is missing or malformed, or when the identity provider rejects the token.
AuthenticateReject(router, u, cred) ==
    /\ req = Null
    /\ resp' = Response("auth", u, 401,
                        IF cred = "missing"
                        THEN "Missing or invalid authorization header"
                        ELSE "Invalid or expired token",
                        [router |-> router], Null)
    /\ UNCHANGED <<now, email, active, organizationSessions, req, lastSwitch>>

\* router.use(authenticateSupabaseUser); router.use(handleOrganizationOverride)
\* (the latter on the groundx router): a request with a verified token is
\* handed on with user and context.
Authenticate(router, u, fail, failSwitched, organizationOverride) ==
    /\ req = Null
    /\ \E clientConfigs \in ClientConfigsCreatedBy(active, u, fail) :
          LET a == authenticateSupabaseUser(u, email[u], clientConfigs, failSwitched,
                                            organizationSessions, now, active) IN
          /\ req' = [router |-> router, subject |-> u,
                     user |-> IF router = "groundx"
                              THEN handleOrganizationOverride(a.user, organizationOverride)
                              ELSE a.user,
                     organizationContext |-> a.organizationContext,
                     userOrganizationInfo |-> a.userOrganizationInfo,
                     sessionOrganizationId |-> a.sessionOrganizationId]
          /\ organizationSessions' = a.sessions
    /\ resp' = Null
    /\ UNCHANGED <<now, email, active, lastSwitch>>

\* ------------------------------------------- organization routes, handled
SwitchOrganization(organizationId, fail) ==
    /\ req # Null /\ req.router = "organizations"
    /\ LET h == switchHandler(req, organizationId, fail, organizationSessions, now, active) IN
       /\ resp' = Response("switch", req.subject, h.status, h.error,
                           [organizationId |-> organizationId,
                            previous |-> MapGet(organizationSessions, req.subject)],
                           h.body)
       /\ organizationSessions' = h.sessions
    /\ req' = Null
    /\ UNCHANGED <<now, email, active, lastSwitch>>

ResetOrganization ==
    /\ req # Null /\ req.router = "organizations"
    /\ LET h == resetHandler(req, organizationSessions) IN
       /\ resp' = Response("reset", req.subject, h.status, h.error,
                           [previous |-> MapGet(organizationSessions, req.subject)],
                           h.body)
       /\ organizationSessions' = h.sessions
    /\ req' = Null
    /\ UNCHANGED <<now, email, active, lastSwitch>>

CurrentOrganization ==
    /\ req # Null /\ req.router = "organizations"
    /\ LET h == currentHandler(req) IN
       resp' = Response("current", req.subject, h.status, h.error, Null, h.body)
    /\ req' = Null
    /\ UNCHANGED <<now, email, active, organizationSessions, lastSwitch>>

\* The exported getOrganizationSession, called for a subject.
GetOrganizationSession(u) ==
    /\ req = Null
    /\ LET g == getOrganizationSession(organizationSessions, u, now) IN
       /\ resp' = Response("getOrganizationSession", u, 200, "",
                           [previous |-> MapGet(organizationSessions, u)], g.result)
       /\ organizationSessions' = g.sessions
    /\ UNCHANGED <<now, email, active, req, lastSwitch>>

Next ==
    \/ Tick
    \/ \E u \in Subjects : \E e \in EmailsOf(u) : ChangeEmail(u, e)
    \/ \E o \in ToggledOrgIds : ToggleActive(o)
    \/ \E u \in Subjects, cred \in {"missing", "invalid"} :
            AuthenticateReject("organizations", u, cred)
    \/ \E u \in Subjects, fail \in BOOLEAN, failSwitched \in BOOLEAN :
            Authenticate("organizations", u, fail, failSwitched, "")
    \/ \E organizationId \in RequestOrgIds, fail \in BOOLEAN :
            SwitchOrganization(organizationId, fail)
    \/ ResetOrganization
    \/ CurrentOrganization
    \/ \E u \in Subjects : GetOrganizationSession(u)

Spec == Init /\ [][Next]_vars

\* ----------------------------------------------------- groundx, handled
\* Bucket lists of at most MaxBuckets buckets of the catalog.
BucketLists == UNION {[1..n -> BucketCatalog] : n \in 0..MaxBuckets}

Listings ==
    {[kind |-> "throws"], [kind |-> "invalid"]}
        \cup {[kind |-> "ok", buckets |-> l] : l \in BucketLists}

\* Answers of the document search: an error, an envelope without results, a
\* results array of count records.
SearchAnswers ==
    {[kind |-> "throws", count |-> 0], [kind |-> "missing", count |-> 0],
     [kind |-> "results", count |-> 0], [kind |-> "results", count |-> 1]}

\* bucketId of a request body: missing, the ids of catalog buckets, an id with
\* a trailing letter, no number at all.
BucketIdInputs == {<<>>, <<"1">>, <<"2">>, <<"2","x">>, <<"x">>}

QueryInputs == {"", "contracts"}

ListBuckets(listing) ==
    /\ req # Null /\ req.router = "groundx"
    /\ LET h == bucketsHandler(req, listing) IN
       resp' = Response("buckets", req.subject, h.status, h.error,
                        [user |-> req.user, listing |-> listing], h.body)
    /\ req' = Null
    /\ UNCHANGED <<now, email, active, organizationSessions, lastSwitch>>

SearchDocuments(query, bucketId, found) ==
    /\ req # Null /\ req.router = "groundx"
    /\ LET h == searchHandler(req, query, bucketId, found) IN
       resp' = Response("search", req.subject, h.status, h.error,
                        [user |-> req.user, calls |-> h.calls], h.body)
    /\ req' = Null
    /\ UNCHANGED <<now, email, active, organizationSessions, lastSwitch>>

RagAnswer(query, bucketId, found, completed) ==
    /\ req # Null /\ req.router = "groundx"
    /\ LET h == ragHandler(req, query, bucketId, found, completed) IN
       resp' = Response("rag", req.subject, h.status, h.error,
                        [user |-> req.user, calls |-> h.calls], h.body)
    /\ req' = Null
    /\ UNCHANGED <<now, email, active, organizationSessions, lastSwitch>>

\* The groundx router is driven from every combination of clock, emails,
\* active rows and a session store holding at most one session, created at
\* time 0 for an organization that was active then.
InitGroundx ==
    /\ now \in {k * TickMs : k \in 0..MaxTicks}
    /\ email \in {f \in [Subjects -> UNION {EmailsOf(u) : u \in Subjects}] :
                    \A u \in Subjects : f[u] \in EmailsOf(u)}
    /\ active \in {OrgIds \ off : off \in SUBSET ToggledOrgIds}
    /\ organizationSessions \in
          {{}} \cup {{[key |-> u,
                       value |-> [activeOrganizationId |-> "org-42", timestamp |-> 0]]} :
                     u \in Subjects}
    /\ req = Null
    /\ resp = Null
    /\ lastSwitch = Null

NextGroundx ==
    \/ \E u \in Subjects, cred \in {"missing", "invalid"} :
            AuthenticateReject("groundx", u, cred)
    \/ \E u \in Subjects, fail \in BOOLEAN, failSwitched \in BOOLEAN,
          organizationOverride \in {"", "org-42"} :
            Authenticate("groundx", u, fail, failSwitched, organizationOverride)
    \/ \E listing \in Listings : ListBuckets(listing)
    \/ \E query \in QueryInputs, bucketId \in BucketIdInputs, found \in SearchAnswers :
            SearchDocuments(query, bucketId, found)
    \/ \E query \in QueryInputs, bucketId \in BucketIdInputs, found \in SearchAnswers,
          completed \in {"throws", "ok"} :
            RagAnswer(query, bucketId, found, completed)

SpecGroundx == InitGroundx /\ [][NextGroundx]_vars

\* -------------------------------- organization routes, as index.ts mounts
\* app.use('/api/organizations', organizationRoutes): no middleware runs
\* before the handlers, whatever token the request of subject u carries.
\* lastSwitch records the last command of a privileged subject: a switch to an
\* organization tenant configuration holds as active, or a reset.
SwitchOrganizationMounted(u, organizationId, fail) ==
    /\ req = Null
    /\ LET h == switchHandler(BareRequest("organizations", u), organizationId, fail,
                              organizationSessions, now, active) IN
       /\ resp' = Response("switch", u, h.status, h.error,
                           [organizationId |-> organizationId,
                            previous |-> MapGet(organizationSessions, u)],
                           h.body)
       /\ organizationSessions' = h.sessions
    /\ lastSwitch' =
          IF IsQIG(email[u]) /\ organizationId \in OrgIds
             /\ organizationId \in active /\ ~fail
          THEN [subject |-> u, command |-> "switch",
                organizationId |-> organizationId, at |-> now]
          ELSE lastSwitch
    /\ UNCHANGED <<now, email, active, req>>

ResetOrganizationMounted(u) ==
    /\ req = Null
    /\ LET h == resetHandler(BareRequest("organizations", u), organizationSessions) IN
       /\ resp' = Response("reset", u, h.status, h.error,
                           [previous |-> MapGet(organizationSessions, u)], h.body)
       /\ organizationSessions' = h.sessions
    /\ lastSwitch' =
          IF IsQIG(email[u])
          THEN [subject |-> u, command |-> "reset", organizationId |-> "", at |-> now]
          ELSE lastSwitch
    /\ UNCHANGED <<now, email, active, req>>

CurrentOrganizationMounted(u) ==
    /\ req = Null
    /\ LET h == currentHandler(BareRequest("organizations", u)) IN
       resp' = Response("current", u, h.status, h.error, Null, h.body)
    /\ UNCHANGED <<now, email, active, organizationSessions, req, lastSwitch>>

NextMounted ==
    \/ Tick
    \/ \E u \in Subjects : \E e \in EmailsOf(u) : ChangeEmail(u, e)
    \/ \E o \in ToggledOrgIds : ToggleActive(o)
    \/ \E u \in Subjects, organizationId \in RequestOrgIds, fail \in BOOLEAN :
            SwitchOrganizationMounted(u, organizationId, fail)
    \/ \E u \in Subjects : ResetOrganizationMounted(u)
    \/ \E u \in Subjects : CurrentOrganizationMounted(u)

SpecMounted == Init /\ [][NextMounted]_vars

\* ------------------------------------------------------------ properties
Privileged(u) == IsQIG(email[u])

SessionAge(session) == now - session.timestamp

\* C1: every context the resolver builds for a non-privileged identity has the
\* home organization as its active organization (id and display name),
\* whatever the session store holds.
C1_NonPrivilegedActsAsHome ==
    (req # Null /\ req.organizationContext # Null /\ ~Privileged(req.subject)) =>
        /\ req.organizationContext.activeOrganizationId
              = req.organizationContext.userOrganizationId
        /\ req.organizationContext.activeOrganizationName
              = req.organizationContext.userOrganizationName
        /\ ~req.organizationContext.isQIGAdmin

\* C1 witness: a non-privileged, assigned subject is resolved while the store
\* holds an unexpired session of that subject for an active organization.
C1_Witness ==
    /\ req # Null /\ ~Privileged(req.subject)
    /\ req.organizationContext.userOrganizationId # ""
    /\ MapHas(organizationSessions, req.subject)
    /\ SessionAge(MapGet(organizationSessions, req.subject)) < SessionTtlMs
    /\ MapGet(organizationSessions, req.subject).activeOrganizationId \in active
    /\ MapGet(organizationSessions, req.subject).activeOrganizationId
          # req.organizationContext.userOrganizationId

\* C2 as stated: canAccess(orgId) iff privileged or orgId = homeOrgId, also
\* when no assignment was found and homeOrgId is the empty string.
C2_AsStated ==
    (req # Null /\ req.organizationContext # Null) =>
        \A orgId \in ProbeOrgIds :
            req.organizationContext.canAccessOrganization[orgId]
                <=> (Privileged(req.subject)
                     \/ orgId = req.organizationContext.userOrganizationId)

\* C2 amended: canAccess(orgId) iff privileged or an assignment was found and
\* orgId is the organization id of that assignment; with no assignment found
\* canAccess is false for every orgId, the empty string included.
C2_CanAccess ==
    (req # Null /\ req.organizationContext # Null) =>
        \A orgId \in ProbeOrgIds :
            req.organizationContext.canAccessOrganization[orgId]
                <=> (Privileged(req.subject)
                     \/ (req.userOrganizationInfo # Null
                         /\ orgId = req.userOrganizationInfo.id
                         /\ orgId = req.organizationContext.userOrganizationId))

\* C2 witness: a context built for a non-privileged subject with no assignment.
C2_Witness ==
    /\ req # Null /\ ~Privileged(req.subject)
    /\ req.userOrganizationInfo = Null
    /\ req.organizationContext.userOrganizationId = ""
    /\ ~req.organizationContext.canAccessOrganization[""]

\* C7: a read at time now answers the stored session iff now - createdAt < 24h;
\* otherwise it answers none and the record is gone; the resolver's own read
\* of the store follows the same rule.
C7_ExpiryOnRead ==
    [][ /\ (resp' # Null /\ resp'.op = "getOrganizationSession") =>
            LET u == resp'.subject
                session == MapGet(organizationSessions, u) IN
            IF session # Null /\ now - session.timestamp < SessionTtlMs
            THEN resp'.body = session /\ organizationSessions' = organizationSessions
            ELSE /\ resp'.body = Null
                 /\ organizationSessions' = {e \in organizationSessions : e.key # u}
        /\ (req = Null /\ req' # Null /\ Privileged(req'.subject)) =>
            LET u == req'.subject
                session == MapGet(organizationSessions, u) IN
            IF session # Null /\ now - session.timestamp < SessionTtlMs
            THEN /\ req'.sessionOrganizationId = session.activeOrganizationId
                 /\ organizationSessions' = organizationSessions
            ELSE /\ req'.sessionOrganizationId = ""
                 /\ req'.organizationContext.activeOrganizationId
                       = req'.organizationContext.userOrganizationId
                 /\ organizationSessions' = {e \in organizationSessions : e.key # u}
      ]_vars

\* C7 witness: a read finds a session of exactly 24 hours, answers none and
\* removes it.
C7_Witness ==
    /\ resp # Null /\ resp.op = "getOrganizationSession"
    /\ resp.input.previous # Null
    /\ now - resp.input.previous.timestamp = SessionTtlMs
    /\ resp.body = Null
    /\ ~MapHas(organizationSessions, resp.subject)

\* C9: a switch that is accepted leaves exactly one session of the subject,
\* holding the new organization and the time of the switch, whatever was stored
\* before; the sessions of other subjects stay; the session is valid until 24
\* hours after this switch; no subject ever has two sessions.
C9_SetReplaces ==
    [][ /\ (resp' # Null /\ resp'.op = "switch" /\ resp'.status = 200) =>
            LET u == resp'.subject IN
            /\ {e \in organizationSessions' : e.key = u}
                  = {[key |-> u,
                      value |-> [activeOrganizationId |-> resp'.input.organizationId,
                                 timestamp |-> now]]}
            /\ {e \in organizationSessions' : e.key # u}
                  = {e \in organizationSessions : e.key # u}
            /\ \A k \in 0..MaxTicks :
                  (getOrganizationSession(organizationSessions', u, now + k * TickMs).result
                      # Null) <=> (k * TickMs < SessionTtlMs)
            /\ \A k \in 0..MaxTicks :
                  LET g == getOrganizationSession(organizationSessions', u, now + k * TickMs) IN
                  g.result # Null =>
                      g.result.activeOrganizationId = resp'.input.organizationId
        /\ \A u \in Subjects :
              Cardinality({e \in organizationSessions' : e.key = u}) <= 1
      ]_vars

\* C9 witness: an accepted switch replaced an older session of the subject for
\* another organization.
C9_Witness ==
    /\ resp # Null /\ resp.op = "switch" /\ resp.status = 200
    /\ resp.input.previous # Null
    /\ resp.input.previous.activeOrganizationId # resp.input.organizationId
    /\ resp.input.previous.timestamp < now
    /\ MapGet(organizationSessions, resp.subject).timestamp = now

\* C10: a switch by a non-privileged caller is answered 403, a switch without a
\* target id 400, a switch to an organization that tenant configuration does
\* not hold as active 404; a switch that is not accepted leaves the session
\* store as it was, and only a privileged caller naming an active organization
\* is accepted.
C10_SwitchRejected ==
    [][ (req # Null /\ resp' # Null /\ resp'.op = "switch") =>
            LET organizationId == resp'.input.organizationId
                held == \E r \in ClientConfigurations :
                           r.organization_id = organizationId /\ organizationId \in active
            IN
            /\ ~Privileged(req.subject) => resp'.status = 403
            /\ (Privileged(req.subject) /\ organizationId = "") => resp'.status = 400
            /\ (Privileged(req.subject) /\ organizationId # "" /\ ~held)
                  => resp'.status = 404
            /\ resp'.status \in {200, 400, 403, 404}
            /\ resp'.status = 200 => (Privileged(req.subject) /\ held)
            /\ resp'.status # 200 => organizationSessions' = organizationSessions
      ]_vars

\* C10 witness: a privileged subject that holds a session is answered 404 for a
\* configured organization that is not active.
C10_Witness ==
    /\ resp # Null /\ resp.op = "switch" /\ resp.status = 404
    /\ Privileged(resp.subject)
    /\ resp.input.organizationId \in OrgIds
    /\ resp.input.previous # Null
    /\ MapGet(organizationSessions, resp.subject) = resp.input.previous

\* Ids of a sequence of buckets (listed or answered).
ListedIds(buckets) == [i \in 1..Len(buckets) |-> buckets[i].bucket_id]

AnsweredIds(buckets) == [i \in 1..Len(buckets) |-> buckets[i].id]

\* The patterns of an organization name as the table and its fallback give
\* them: the table entry, or the name itself.
PatternsOf(organizationName) ==
    IF organizationName \in DOMAIN orgToBucketMapping
    THEN orgToBucketMapping[organizationName]
    ELSE <<organizationName>>

\* The bucket listing would answer this bucket to the user.
Permitted(bucket, user) ==
    LET f == FilterBuckets(<<bucket>>, user.isQIG, OrganizationName(user)) IN
    ~f.threw /\ f.buckets = <<bucket>>

\* C3: a search or RAG request of a non-privileged caller issues upstream
\* calls only for a bucket the bucket listing would answer to that caller
\* (a call whose bucket id is no number is let pass).
C3_RetrievalOnlyInPermittedBuckets ==
    (resp # Null /\ resp.op \in {"search", "rag"} /\ ~resp.input.user.isQIG) =>
        \A i \in 1..Len(resp.input.calls) :
            \E bucket \in BucketCatalog :
                resp.input.calls[i].bucketId.nan
                \/ /\ resp.input.calls[i].bucketId.value = bucket.bucket_id
                   /\ Permitted(bucket, resp.input.user)

\* C4: the bucket listing answers no bucket to a non-privileged identity for
\* which no organization assignment was found.
C4_UnassignedSeesNoBucket ==
    (resp # Null /\ resp.op = "buckets" /\ resp.input.listing.kind = "ok"
        /\ ~resp.input.user.isQIG /\ resp.input.user.organization = Null) =>
        /\ resp.status = 200
        /\ resp.body.buckets = <<>>

\* C5: to a privileged identity the bucket listing answers every listed
\* bucket, in the listed order, whatever the session store holds.
C5_PrivilegedSeesAllBuckets ==
    (resp # Null /\ resp.op = "buckets" /\ resp.input.listing.kind = "ok"
        /\ Privileged(resp.subject)) =>
        /\ resp.status = 200
        /\ AnsweredIds(resp.body.buckets) = ListedIds(resp.input.listing.buckets)
        /\ \A i \in 1..Len(resp.body.buckets) :
              BucketName(resp.input.listing.buckets[i]) # <<>> =>
                  resp.body.buckets[i].name = BucketName(resp.input.listing.buckets[i])

\* C5 witness: a privileged subject acting as another organization through an
\* unexpired session lists two buckets, one of which does not bear the name of
\* that organization.
C5_Witness ==
    /\ resp # Null /\ resp.op = "buckets" /\ resp.status = 200
    /\ Privileged(resp.subject)
    /\ resp.input.user.organization.id = "org-42"
    /\ MapHas(organizationSessions, resp.subject)
    /\ Len(resp.body.buckets) = 2
    /\ \E i \in 1..2 :
          ~BucketMatches(resp.input.listing.buckets[i], PatternsOf(NameAcme))

\* C6: to a non-privileged identity with an organization name the bucket
\* listing answers exactly the listed buckets, in the listed order, whose
\* display name contains, case-insensitively, a pattern of the organization:
\* the table entry of the name or, without one, the name itself.
C6_FilterKeepsMatchingBuckets ==
    (resp # Null /\ resp.op = "buckets" /\ resp.input.listing.kind = "ok"
        /\ ~resp.input.user.isQIG /\ OrganizationName(resp.input.user) # <<>>) =>
        /\ resp.status = 200
        /\ AnsweredIds(resp.body.buckets)
              = ListedIds(SelectSeq(resp.input.listing.buckets,
                    LAMBDA b : BucketMatches(
                                  b, PatternsOf(OrganizationName(resp.input.user)))))

\* C6 for the organization names that are no inherited property name of the
\* table object.
C6_FilterKeepsMatchingBucketsOwnNames ==
    (resp # Null /\ resp.op = "buckets" /\ resp.input.listing.kind = "ok"
        /\ ~resp.input.user.isQIG /\ OrganizationName(resp.input.user) # <<>>
        /\ OrganizationName(resp.input.user) \notin ObjectPrototypeKeys) =>
        /\ resp.status = 200
        /\ AnsweredIds(resp.body.buckets)
              = ListedIds(SelectSeq(resp.input.listing.buckets,
                    LAMBDA b : BucketMatches(
                                  b, PatternsOf(OrganizationName(resp.input.user)))))

\* The display name tenant configuration holds for an organization id.
ClientNameOf(organizationId) ==
    (CHOOSE r \in ClientConfigurations : r.organization_id = organizationId).client_name

\* C8: after a privileged subject switched to an organization that exists,
\* current() within 24 hours reports that organization (id and display name)
\* as active and the home organization unchanged; after a reset, current()
\* reports the home organization as active.
C8_SwitchThenCurrent ==
    (resp # Null /\ resp.op = "current" /\ Privileged(resp.subject)
        /\ lastSwitch # Null /\ lastSwitch.subject = resp.subject) =>
        /\ resp.status = 200
        /\ resp.body.userOrganization.id = "qig-org"
        /\ (lastSwitch.command = "switch" /\ now - lastSwitch.at < SessionTtlMs
               /\ lastSwitch.organizationId \in active) =>
              /\ resp.body.activeOrganization.id = lastSwitch.organizationId
              /\ resp.body.activeOrganization.name
                    = ClientNameOf(lastSwitch.organizationId)
        /\ lastSwitch.command = "reset" =>
              resp.body.activeOrganization.id = "qig-org"

\* ===================================================== token verification
\* Strings the code slices are sequences of one-character strings.
BearerPrefix == <<"B", "e", "a", "r", "e", "r", " ">>

\* Faulty variant: only the length of the prefix is compared.
startsWithLength(s, p) == Len(s) >= Len(p)

\* String.prototype.startsWith
startsWith(s, p) == Len(s) >= Len(p) /\ SubSeq(s, 1, Len(p)) = p

\* String.prototype.substring(n)
substring(s, n) == SubSeq(s, n + 1, Len(s))

TokenOfU1 == <<"t", "1">>

TokenOfU2 == <<"t", "2">>

\* Authorization headers: none, no separator, wrong case, another scheme, an
\* empty token, the tokens of the two subjects, a doubled separator, a token
\* nobody issued.
AuthHeaders ==
    {<<>>,
     <<"B", "e", "a", "r", "e", "r">>,
     <<"b", "e", "a", "r", "e", "r", " ">> \o TokenOfU1,
     <<"B", "a", "s", "i", "c", " ", " ">> \o TokenOfU1,
     BearerPrefix,
     BearerPrefix \o TokenOfU1,
     BearerPrefix \o TokenOfU2,
     BearerPrefix \o <<" ">> \o TokenOfU1,
     BearerPrefix \o <<"z", "z">>}

\* What supabase.auth.getUser(token) can answer: an error, no error and no
\* user, an exception, and for a token the provider issued (it may have
\* expired since) the user.
GetUserAnswers(token) ==
    {[kind |-> "error", id |-> ""], [kind |-> "nouser", id |-> ""],
     [kind |-> "throws", id |-> ""]}
        \cup (IF token = TokenOfU1 THEN {[kind |-> "user", id |-> "u1"]} ELSE {})
        \cup (IF token = TokenOfU2 THEN {[kind |-> "user", id |-> "u2"]} ELSE {})

\* The head of authenticateSupabaseUser and of GET /api/auth/verify: header
\* check, token extraction, one getUser call.  configured: SUPABASE_URL and
\* SUPABASE_ANON_KEY are set, so that getSupabaseClient() does not throw;
\* caught: the error text of the enclosing catch.
verifyBearer(authHeader, configured, answer, caught) ==
    IF authHeader = <<>> \/ ~startsWith(authHeader, BearerPrefix)
    THEN [status |-> 401, error |-> "Missing or invalid authorization header",
          calls |-> <<>>, userId |-> ""]
    ELSE IF ~configured
    THEN [status |-> 500, error |-> caught, calls |-> <<>>, userId |-> ""]
    ELSE LET token == substring(authHeader, 7)
             call == [service |-> "auth.getUser", token |-> token]
         IN IF answer.kind = "throws"
            THEN [status |-> 500, error |-> caught, calls |-> <<call>>, userId |-> ""]
            ELSE IF answer.kind # "user"
            THEN [status |-> 401, error |-> "Invalid or expired token",
                  calls |-> <<call>>, userId |-> ""]
            ELSE [status |-> 200, error |-> "", calls |-> <<call>>,
                  userId |-> answer.id]

\* authenticateSupabaseUser, whole: what it answers itself, whether it calls
\* next(), and what it has attached to the request by then.  clientConfigs:
\* the answer of the client_configurations lookup for the verified user.
authenticateBearer(authHeader, configured, answer, mail, clientConfigs, failSwitched, sessions, t, act) ==
    LET v == verifyBearer(authHeader, configured, answer, "Authentication failed") IN
    IF v.status # 200
    THEN [next |-> FALSE, status |-> v.status, error |-> v.error, calls |-> v.calls,
          userId |-> "", user |-> Null, organizationContext |-> Null,
          userOrganizationInfo |-> Null, sessionOrganizationId |-> "",
          sessions |-> sessions]
    ELSE LET a == authenticateSupabaseUser(v.userId, mail[v.userId], clientConfigs,
                                           failSwitched, sessions, t, act)
         IN [next |-> TRUE, status |-> 200, error |-> "", calls |-> v.calls,
             userId |-> v.userId, user |-> a.user,
             organizationContext |-> a.organizationContext,
             userOrganizationInfo |-> a.userOrganizationInfo,
             sessionOrganizationId |-> a.sessionOrganizationId,
             sessions |-> a.sessions]

\* GET /api/auth/verify.  organizationName: the name of the organization the
\* profile row joins, "" when the profile lookup fails.
verifyHandler(authHeader, configured, answer, mail, organizationName) ==
    LET v == verifyBearer(authHeader, configured, answer, "Internal server error") IN
    IF v.status # 200
    THEN [status |-> v.status, error |-> v.error, calls |-> v.calls, body |-> Null]
    ELSE [status |-> 200, error |-> "", calls |-> v.calls,
          body |-> [tokenValid |-> TRUE,
                    user |-> [id |-> v.userId, email |-> mail[v.userId],
                              isQIG |-> organizationName = NameQIG]]]

\* router.use(authenticateSupabaseUser) of the groundx router, from the header.
AuthenticateBearer(authHeader, configured, fail, failSwitched) ==
    /\ req = Null
    /\ \E answer \in GetUserAnswers(substring(authHeader, 7)) :
       \E u \in Subjects : \E clientConfigs \in ClientConfigsCreatedBy(active, u, fail) :
          /\ answer.id \in {"", u}
          /\ LET a == authenticateBearer(authHeader, configured, answer, email,
                                         clientConfigs, failSwitched,
                                         organizationSessions, now, active)
                 seen == [authHeader |-> authHeader, configured |-> configured,
                          answer |-> answer, calls |-> a.calls, fail |-> fail,
                          failSwitched |-> failSwitched]
             IN /\ req' = IF a.next
                          THEN [router |-> "groundx", subject |-> a.userId,
                                user |-> handleOrganizationOverride(a.user, ""),
                                organizationContext |-> a.organizationContext,
                                userOrganizationInfo |-> a.userOrganizationInfo,
                                sessionOrganizationId |-> a.sessionOrganizationId,
                                seen |-> seen]
                          ELSE Null
                /\ resp' = IF a.next
                           THEN Null
                           ELSE Response("auth", a.userId, a.status, a.error, seen,
                                         [next |-> a.next, user |-> a.user,
                                          organizationContext |-> a.organizationContext])
                /\ organizationSessions' = a.sessions
    /\ UNCHANGED <<now, email, active, lastSwitch>>

VerifyToken(authHeader, configured, organizationName) ==
    /\ req = Null
    /\ \E answer \in GetUserAnswers(substring(authHeader, 7)) :
          LET h == verifyHandler(authHeader, configured, answer, email, organizationName) IN
          resp' = Response("verify", "", h.status, h.error,
                           [authHeader |-> authHeader, configured |-> configured,
                            answer |-> answer, calls |-> h.calls],
                           h.body)
    /\ UNCHANGED <<now, email, active, organizationSessions, req, lastSwitch>>

NextAuth ==
    \/ \E u \in Subjects : \E e \in EmailsOf(u) : ChangeEmail(u, e)
    \/ \E o \in ToggledOrgIds : ToggleActive(o)
    \/ \E authHeader \in AuthHeaders, configured \in BOOLEAN, fail \in BOOLEAN :
            AuthenticateBearer(authHeader, configured, fail, FALSE)
    \/ \E authHeader \in AuthHeaders, configured \in BOOLEAN,
          organizationName \in {<<>>, NameQIG} :
            VerifyToken(authHeader, configured, organizationName)
    \/ \E listing \in {l \in Listings : l.kind = "ok" => l.buckets = <<>>} :
            ListBuckets(listing)

SpecAuth == Init /\ [][NextAuth]_vars

\* The header carries no bearer token: absent, or not "Bearer " and a rest.
NoBearer(authHeader) ==
    \/ Len(authHeader) < 7
    \/ \E i \in 1..7 : authHeader[i] # BearerPrefix[i]

\* The request fails token verification: no bearer token, or the identity
\* provider, asked, answers an error or no user.
VerificationFails(seen) ==
    \/ NoBearer(seen.authHeader)
    \/ seen.configured /\ seen.answer.kind \in {"error", "nouser"}

\* C11: a request whose Authorization header is absent or malformed, or whose
\* token the identity provider rejects, is answered 401 after at most one
\* getUser call (none without a bearer token), next() is not called and
\* neither user nor organization context is attached; a request that reaches
\* a handler carried a bearer token the provider accepted, verified once.
C11_VerificationFailureTerminal ==
    /\ (resp # Null /\ resp.op \in {"auth", "verify"} /\ VerificationFails(resp.input)) =>
          /\ resp.status = 401
          /\ Len(resp.input.calls) <= 1
          /\ NoBearer(resp.input.authHeader) => resp.input.calls = <<>>
          /\ req = Null
          /\ resp.op = "auth" =>
                /\ ~resp.body.next
                /\ resp.body.user = Null
                /\ resp.body.organizationContext = Null
          /\ resp.op = "verify" => resp.body = Null
    /\ req # Null =>
          /\ ~VerificationFails(req.seen)
          /\ Len(req.seen.calls) = 1
          /\ req.user.id = req.seen.answer.id
    /\ (resp # Null /\ resp.op = "buckets") => resp.input.user # Null

\* A token the provider rejects has been answered 401 after one call.
C11_Witness ==
    /\ resp # Null /\ resp.op = "auth" /\ resp.status = 401
    /\ ~NoBearer(resp.input.authHeader)
    /\ resp.input.answer.kind = "error"
    /\ Len(resp.input.calls) = 1

\* ========================================================= score extraction
\* JavaScript values a score field can hold after the search response was
\* parsed: nothing, a finite number, NaN, an infinity (JSON 1e999), a string.
Undefined == [t |-> "undefined", v |-> 0]

Num(v) == [t |-> "number", v |-> v]

NaNValue == [t |-> "nan", v |-> 0]

InfinityValue == [t |-> "infinity", v |-> 0]

StringValue == [t |-> "string", v |-> 0]

ScoreValues == {Undefined, Num(0), Num(7), NaNValue, InfinityValue, StringValue}

\* typeof x === 'number'
TypeofNumber(x) == x.t \in {"number", "nan", "infinity"}

\* isNaN(x) of a value whose typeof is 'number'
isNaN(x) == x.t = "nan"

\* result.metadata?.score, result.searchData?.score
NestedScore(object) == IF "score" \in DOMAIN object THEN object.score ELSE Undefined

\* Object.entries(scoreFields), in insertion order.
ScoreFields(result) ==
    <<[source |-> "primaryScore", score |-> result.score],
      [source |-> "relevanceScore", score |-> result.relevanceScore],
      [source |-> "rankingScore", score |-> result.rankingScore],
      [source |-> "metadataScore", score |-> NestedScore(result.metadata)],
      [source |-> "searchDataScore", score |-> NestedScore(result.searchData)]>>

extractBestScore(result) ==
    LET scoreFields == ScoreFields(result)
        hits == {i \in 1..Len(scoreFields) :
                    TypeofNumber(scoreFields[i].score) /\ ~isNaN(scoreFields[i].score)}
    IN IF hits = {}
       THEN [score |-> Num(0), source |-> "default"]
       ELSE LET first == CHOOSE i \in hits : \A j \in hits : i <= j
            IN [score |-> scoreFields[first].score, source |-> scoreFields[first].source]

\* Search result items: every combination of score values, the nested
\* objects present or absent.
NestedObjects == {Undefined} \cup {[score |-> v] : v \in ScoreValues}

SearchResultItems ==
    [documentId : {"d1"}, score : ScoreValues, relevanceScore : ScoreValues,
     rankingScore : ScoreValues, metadata : NestedObjects, searchData : NestedObjects]

InitScore ==
    /\ now = 0
    /\ email = [u \in Subjects |-> IF u = "u1" THEN EmailAdmin ELSE EmailPlain]
    /\ active = OrgIds
    /\ organizationSessions = {}
    /\ req \in SearchResultItems
    /\ resp = Null
    /\ lastSwitch = Null

ExtractBestScore ==
    /\ resp = Null
    /\ resp' = Response("extractBestScore", "", 200, "", req, extractBestScore(req))
    /\ UNCHANGED <<now, email, active, organizationSessions, req, lastSwitch>>

NextScore == ExtractBestScore

SpecScore == InitScore /\ [][NextScore]_vars

\* The score fields in the order the specification fixes.
FieldOrder ==
    <<"primaryScore", "relevanceScore", "rankingScore", "metadataScore",
      "searchDataScore">>

FieldValue(result, field) ==
    CASE field = "primaryScore" -> result.score
      [] field = "relevanceScore" -> result.relevanceScore
      [] field = "rankingScore" -> result.rankingScore
      [] field = "metadataScore" ->
            IF result.metadata = Undefined THEN Undefined ELSE result.metadata.score
      [] field = "searchDataScore" ->
            IF result.searchData = Undefined THEN Undefined ELSE result.searchData.score

\* A finite number: neither NaN nor an infinity.
Finite(x) == x.t = "number"

\* C17: score extraction returns the first field, in the fixed order, that
\* holds a finite number, tagged with the field's name; with no finite number
\* in any field (absent, non-numeric, NaN, infinite) it returns 0 tagged
\* "default".
C17_FirstFiniteScore ==
    (resp # Null /\ resp.op = "extractBestScore") =>
        LET finite == {i \in 1..Len(FieldOrder) :
                          Finite(FieldValue(resp.input, FieldOrder[i]))}
        IN IF finite = {}
           THEN resp.body = [score |-> Num(0), source |-> "default"]
           ELSE \E i \in finite :
                   /\ \A j \in finite : i <= j
                   /\ resp.body.source = FieldOrder[i]
                   /\ resp.body.score = FieldValue(resp.input, FieldOrder[i])

\* C17 holds of every item none of whose fields is an infinity.
C17_FirstFiniteScoreNoInfinity ==
    (resp # Null /\ resp.op = "extractBestScore"
        /\ \A i \in 1..Len(FieldOrder) :
              FieldValue(resp.input, FieldOrder[i]) # InfinityValue)
    => C17_FirstFiniteScore

\* ================================== groundx search and RAG, in full detail
\* searchHandler and ragHandler above keep the upstream calls only; the
\* operators below keep the whole request body, the upstream answers, the
\* calls with their arguments and the JSON payload answered.  A payload is a
\* record holding exactly the keys the code writes.
MaxResults == 2

MaxTurns == 3

\* Three items of the search service: a true zero primary score, no score at
\* all, a ranking score behind a non-numeric primary score.
ItemZero ==
    [documentId |-> "d1", score |-> Num(0), relevanceScore |-> Num(7),
     rankingScore |-> Undefined, metadata |-> Undefined, searchData |-> Undefined]

ItemUnscored ==
    [documentId |-> "d2", score |-> Undefined, relevanceScore |-> Undefined,
     rankingScore |-> Undefined, metadata |-> [score |-> NaNValue],
     searchData |-> Undefined]

ItemRanked ==
    [documentId |-> "d3", score |-> StringValue, relevanceScore |-> Undefined,
     rankingScore |-> Num(7), metadata |-> Undefined, searchData |-> Undefined]

ResultCatalog == {ItemZero, ItemUnscored, ItemRanked}

\* What client.search.content can answer: an exception, an envelope without
\* search.results, an envelope with a results array (empty included).
SearchResponses ==
    {[kind |-> "throws", results |-> <<>>], [kind |-> "missing", results |-> <<>>]}
        \cup {[kind |-> "results", results |-> r] :
                r \in UNION {[1..n -> ResultCatalog] : n \in 0..MaxResults}}

\* Faulty variant: an empty results array counts as missing.
ResultsMissingOrEmpty(found) == found.kind = "missing" \/ found.results = <<>>

\* Faulty variant: the envelope is not inspected.
ResultsNeverMissing(found) == FALSE

\* !searchResponse?.search?.results
ResultsMissing(found) == found.kind = "missing"

\* What chat.completions.create can answer: an exception, a completion with
\* content, a completion without choices.
Completions == {"throws", "content", "empty"}

\* Conversation histories: up to MaxTurns turns, the i-th turn holding the
\* i-th content; role "system" stands for every role other than user and
\* assistant.
TurnContents == <<"m1", "m2", "m3", "m4", "m5", "m6">>

Histories ==
    UNION {{[i \in 1..n |-> [role |-> roles[i], content |-> TurnContents[i]]] :
                roles \in [1..n -> {"user", "assistant", "system"}]} :
           n \in 0..MaxTurns}

\* Faulty variant: the most recent turn is kept.
SliceAll(messages) == messages

\* messages.slice(0, -1)
SliceButLast(messages) ==
    IF messages = <<>> THEN <<>> ELSE SubSeq(messages, 1, Len(messages) - 1)

IsChatRole(msg) == msg.role = "user" \/ msg.role = "assistant"

\* The messages array the RAG handler sends to chat.completions.create.
openaiMessages(query, messages, conversationContext) ==
    <<[role |-> "system", content |-> "systemPrompt"]>>
        \o (IF conversationContext /\ Len(messages) > 1
            THEN SelectSeq(SliceButLast(messages), IsChatRole)
            ELSE <<>>)
        \o <<[role |-> "user", content |-> query]>>

\* One source of the RAG answer, one result of the search answer.
RagSource(result) ==
    LET scoreData == extractBestScore(result) IN
    [id |-> result.documentId, metadata |-> result.metadata,
     searchData |-> result.searchData, score |-> scoreData.score,
     rawScore |-> scoreData.score, scoreSource |-> scoreData.source, hasXray |-> TRUE]

SearchResult(result) ==
    LET scoreData == extractBestScore(result) IN
    [documentId |-> result.documentId, score |-> scoreData.score,
     metadata |-> result.metadata]

\* POST /groundx/search, whole.  body: [query, bucketId]; found: the answer of
\* client.search.content.
searchRoute(body, found) ==
    IF body.query = "" \/ body.bucketId = <<>>
    THEN [status |-> 400, calls |-> <<>>,
          payload |-> [success |-> FALSE, error |-> "Query and bucketId are required"]]
    ELSE LET call == [service |-> "search.content",
                      bucketId |-> parseInt(body.bucketId), query |-> body.query]
         IN IF found.kind = "throws"
            THEN [status |-> 500, calls |-> <<call>>,
                  payload |-> [success |-> FALSE, error |-> "GroundX API error"]]
            ELSE IF ResultsMissing(found)
            THEN [status |-> 200, calls |-> <<call>>,
                  payload |-> [success |-> TRUE, results |-> <<>>, count |-> 0]]
            ELSE [status |-> 200, calls |-> <<call>>,
                  payload |->
                    [success |-> TRUE,
                     results |-> [i \in 1..Len(found.results) |->
                                    SearchResult(found.results[i])],
                     count |-> Len(found.results)]]

\* POST /groundx/rag, whole.  body: [query, bucketId, messages,
\* conversationContext, includeThoughts]; completed: the answer of
\* chat.completions.create; t: Date.now().  (express.json() leaves req.body an
\* object, so the missing-body return is not taken.)
ragRoute(user, body, found, completed, t) ==
    IF user = Null
    THEN [status |-> 401, calls |-> <<>>,
          payload |-> [success |-> FALSE, error |-> "Authentication required",
                       timestamp |-> t]]
    ELSE IF body.query = "" \/ body.bucketId = <<>>
    THEN [status |-> 400, calls |-> <<>>,
          payload |-> [success |-> FALSE, error |-> "Query and bucketId are required",
                       received |-> [query |-> body.query, bucketId |-> body.bucketId],
                       timestamp |-> t]]
    ELSE LET call == [service |-> "search.content",
                      bucketId |-> parseInt(body.bucketId), query |-> body.query]
             failed(message, calls) ==
                [status |-> 500, calls |-> calls,
                 payload |-> [success |-> FALSE, error |-> message, timestamp |-> t]]
         IN IF found.kind = "throws"
            THEN failed("GroundX API error", <<call>>)
            ELSE IF ResultsMissing(found)
            THEN failed("No search results from GroundX", <<call>>)
            ELSE
            LET sources == [i \in 1..Len(found.results) |-> RagSource(found.results[i])]
                generation ==
                    [service |-> "chat.completions",
                     messages |-> openaiMessages(body.query, body.messages,
                                                 body.conversationContext)]
                answered ==
                    [success |-> TRUE, timestamp |-> t, query |-> body.query,
                     response |-> IF completed = "content"
                                  THEN "answer" ELSE "No response generated",
                     searchResults |-> [count |-> Len(sources), sources |-> sources],
                     executionTime |-> [totalMs |-> t - t, searchMs |-> t - t,
                                        llmMs |-> t - t]]
            IN IF completed = "throws"
               THEN failed("OpenAI API error", <<call, generation>>)
               ELSE [status |-> 200, calls |-> <<call, generation>>,
                     payload |->
                        IF body.includeThoughts
                        THEN [k \in DOMAIN answered \cup {"thoughts"} |->
                                IF k = "thoughts" THEN "thoughts" ELSE answered[k]]
                        ELSE answered]

\* Request bodies.  Search and retrieval are exercised over every query,
\* bucket id, search answer and completion with a fixed two-turn history; turn
\* assembly over every history and flag with one search answer.
SearchBodies == [query : QueryInputs, bucketId : BucketIdInputs]

TwoTurns ==
    <<[role |-> "user", content |-> "m1"], [role |-> "user", content |-> "m2"]>>

RagRetrievalInputs ==
    [body : [query : QueryInputs, bucketId : BucketIdInputs, messages : {TwoTurns},
             conversationContext : {TRUE}, includeThoughts : {FALSE}],
     found : SearchResponses, completed : Completions]

RagTurnInputs ==
    [body : [query : {"contracts"}, bucketId : {<<"1">>}, messages : Histories,
             conversationContext : BOOLEAN, includeThoughts : BOOLEAN],
     found : {[kind |-> "results", results |-> <<ItemZero>>]},
     completed : {"content"}]

SearchContent(body, found) ==
    /\ req # Null /\ req.router = "groundx"
    /\ LET h == searchRoute(body, found) IN
       resp' = Response("search", req.subject, h.status, "",
                        [body |-> body, found |-> found, calls |-> h.calls], h.payload)
    /\ req' = Null
    /\ UNCHANGED <<now, email, active, organizationSessions, lastSwitch>>

RagCompletion(in) ==
    /\ req # Null /\ req.router = "groundx"
    /\ LET h == ragRoute(req.user, in.body, in.found, in.completed, now) IN
       resp' = Response("rag", req.subject, h.status, "",
                        [body |-> in.body, found |-> in.found,
                         completed |-> in.completed, calls |-> h.calls],
                        h.payload)
    /\ req' = Null
    /\ UNCHANGED <<now, email, active, organizationSessions, lastSwitch>>

NextRag ==
    \/ Tick
    \/ \E u \in Subjects : Authenticate("groundx", u, FALSE, FALSE, "")
    \/ \E body \in SearchBodies, found \in SearchResponses : SearchContent(body, found)
    \/ \E in \in RagRetrievalInputs \cup RagTurnInputs : RagCompletion(in)

SpecRag == Init /\ [][NextRag]_vars

\* ------------------------------------------------ search and RAG properties
\* The request passed the handler's own checks on user, query and bucketId.
RagAccepted ==
    /\ resp # Null /\ resp.op = "rag"
    /\ resp.input.body.query # "" /\ resp.input.body.bucketId # <<>>

\* C12: a RAG request whose query is empty or missing, or whose bucketId is
\* missing or resolves to no integer, is answered 400 with no call to the
\* search service and none to the completion service.
C12_InvalidRequestBeforeAnyCall ==
    (resp # Null /\ resp.op = "rag"
        /\ (resp.input.body.query = "" \/ parseInt(resp.input.body.bucketId).nan)) =>
        /\ resp.status = 400
        /\ resp.input.calls = <<>>

\* C12, the part the handler keeps: an empty or missing query or bucketId is
\* answered 400 with no upstream call.
C12_MissingFieldBeforeAnyCall ==
    (resp # Null /\ resp.op = "rag"
        /\ (resp.input.body.query = "" \/ resp.input.body.bucketId = <<>>)) =>
        /\ resp.status = 400
        /\ resp.input.calls = <<>>

\* C13: in the RAG operation an empty results array leads to the generation
\* call and, that call answering, to a successful answer with sources = [];
\* never to the retrieval error.  An envelope without results array is
\* answered with the retrieval error, no answer and no generation call.
C13_EmptyResultsAnswered ==
    RagAccepted =>
        /\ (resp.input.found.kind = "results" /\ resp.input.found.results = <<>>) =>
              /\ Len(resp.input.calls) = 2
              /\ resp.input.calls[2].service = "chat.completions"
              /\ "error" \in DOMAIN resp.body =>
                    resp.body.error # "No search results from GroundX"
              /\ resp.input.completed # "throws" =>
                    /\ resp.status = 200
                    /\ resp.body.success
                    /\ resp.body.searchResults.sources = <<>>
                    /\ resp.body.searchResults.count = 0
        /\ resp.input.found.kind = "missing" =>
              /\ resp.status = 500
              /\ ~resp.body.success
              /\ resp.body.error = "No search results from GroundX"
              /\ "response" \notin DOMAIN resp.body
              /\ Len(resp.input.calls) = 1

\* An empty results array was answered with an answer and no sources.
C13_Witness ==
    /\ RagAccepted
    /\ resp.input.found.kind = "results" /\ resp.input.found.results = <<>>
    /\ resp.status = 200 /\ resp.body.searchResults.sources = <<>>
    /\ Len(resp.input.calls) = 2

\* C14: in the search operation an envelope without results array is answered
\* as a failure, never as a success; an empty results array is answered as a
\* success with an empty result list.
C14_MissingResultsIsFailure ==
    (resp # Null /\ resp.op = "search"
        /\ resp.input.body.query # "" /\ resp.input.body.bucketId # <<>>) =>
        /\ resp.input.found.kind = "missing" =>
              resp.status >= 400 /\ ~resp.body.success
        /\ (resp.input.found.kind = "results" /\ resp.input.found.results = <<>>) =>
              resp.status = 200 /\ resp.body.success /\ resp.body.results = <<>>

\* C15: the upstream calls of a RAG request are a prefix of (retrieval,
\* generation); generation is called only after retrieval answered a results
\* array, and no call is repeated whatever fails.
C15_CallsArePrefix ==
    (resp # Null /\ resp.op = "rag") =>
        LET calls == resp.input.calls IN
        /\ Len(calls) <= 2
        /\ Len(calls) >= 1 => calls[1].service = "search.content"
        /\ Len(calls) = 2 =>
              /\ calls[2].service = "chat.completions"
              /\ resp.input.found.kind = "results"
        /\ resp.input.found.kind \in {"throws", "missing"} => Len(calls) <= 1

\* Generation failed after a retrieval that answered: two calls, no third.
C15_Witness ==
    /\ RagAccepted
    /\ resp.input.found.kind = "results" /\ resp.input.completed = "throws"
    /\ resp.status = 500 /\ Len(resp.input.calls) = 2

\* C16: every failing search or RAG request is answered with success = false,
\* an error and a timestamp; a RAG request failing in retrieval or generation
\* carries no answer and no timing.
C16_FailurePayload ==
    (resp # Null /\ resp.op \in {"search", "rag"} /\ resp.status >= 400) =>
        /\ {"success", "error", "timestamp"} \subseteq DOMAIN resp.body
        /\ ~resp.body.success
        /\ resp.op = "rag" =>
              /\ "response" \notin DOMAIN resp.body
              /\ "executionTime" \notin DOMAIN resp.body

\* C16 for the RAG operation alone.
C16_RagFailurePayload ==
    (resp # Null /\ resp.op = "rag" /\ resp.status >= 400) => C16_FailurePayload

\* The result records an answer returns.
ReturnedRecords ==
    IF resp = Null \/ resp.status # 200 THEN {}
    ELSE IF resp.op = "search"
    THEN {resp.body.results[i] : i \in 1..Len(resp.body.results)}
    ELSE IF resp.op = "rag"
    THEN {resp.body.searchResults.sources[i] :
            i \in 1..Len(resp.body.searchResults.sources)}
    ELSE {}

\* C18: every result record returned by the search operation and by the RAG
\* operation carries the score provenance tag next to the score.
C18_ProvenanceSurfaced ==
    \A record \in ReturnedRecords : {"score", "scoreSource"} \subseteq DOMAIN record

\* C18 for the RAG operation alone.
C18_RagProvenanceSurfaced ==
    (resp # Null /\ resp.op = "rag") => C18_ProvenanceSurfaced

\* The positions of the history that are sent: with the flag set and more
\* than one turn, every turn but the most recent whose role is user or
\* assistant; none otherwise.
SentPositions(body) ==
    IF body.conversationContext /\ Len(body.messages) > 1
    THEN {i \in 1..(Len(body.messages) - 1) :
            body.messages[i].role \in {"user", "assistant"}}
    ELSE {}

\* C19: the turns sent to the completion service are the system instruction,
\* then the history turns at the sent positions in their original order, then
\* the query as a user turn.
C19_TurnSequence ==
    (RagAccepted /\ Len(resp.input.calls) = 2) =>
        LET sent == resp.input.calls[2].messages
            body == resp.input.body
            kept == SentPositions(body)
        IN /\ Len(sent) = Cardinality(kept) + 2
           /\ sent[1].role = "system"
           /\ sent[Len(sent)] = [role |-> "user", content |-> body.query]
           /\ \A i \in kept :
                 sent[1 + Cardinality({j \in kept : j <= i})] = body.messages[i]

\* A three-turn history with the flag set: a turn of another role was
\* dropped, the most recent turn left out, one turn sent.
C19_Witness ==
    /\ RagAccepted /\ Len(resp.input.calls) = 2
    /\ resp.input.body.conversationContext
    /\ Len(resp.input.body.messages) = 3
    /\ resp.input.body.messages[1].role = "system"
    /\ resp.input.body.messages[2].role = "assistant"
    /\ Len(resp.input.calls[2].messages) = 3

\* ============================================== routes/chat.ts, streaming
\* The upstream stream is a sequence of bytes.  A JSON document with a content
\* delta c is abbreviated to the three units "{", c, "}", each standing for a
\* run of bytes; the first six units of a data line are the bytes of "data: ".
MaxDeltas == 2

DataPrefix == <<"d", "a", "t", "a", ":", " ">>

DataDone == DataPrefix \o <<"[", "]">>

DeltaContents == {"a", "b"}

\* One server-sent event carrying the content delta c.
DeltaEvent(c) == DataPrefix \o <<"{", c, "}", "\n", "\n">>

RECURSIVE ConcatEvents(_)
ConcatEvents(deltas) ==
    IF deltas = <<>> THEN <<>>
    ELSE DeltaEvent(Head(deltas)) \o ConcatEvents(Tail(deltas))

\* The bytes of a stream with the given content deltas, closed by [DONE].
StreamOf(deltas) == ConcatEvents(deltas) \o DataDone \o <<"\n", "\n">>

DeltaSequences == UNION {[1..n -> DeltaContents] : n \in 0..MaxDeltas}

\* String.prototype.split(sep) for a one-byte separator.
RECURSIVE split(_, _)
split(str, sep) ==
    IF \E i \in 1..Len(str) : str[i] = sep
    THEN LET i == CHOOSE k \in 1..Len(str) :
                    str[k] = sep /\ \A j \in 1..(k - 1) : str[j] # sep
         IN <<SubSeq(str, 1, i - 1)>> \o split(SubSeq(str, i + 1, Len(str)), sep)
    ELSE <<str>>

\* JSON.parse(jsonStr) and parsed.choices?.[0]?.delta?.content: the content of
\* a complete document, nothing when parsing throws.
ParsedContent(jsonStr) ==
    IF Len(jsonStr) = 3 /\ jsonStr[1] = "{" /\ jsonStr[3] = "}"
            /\ jsonStr[2] \in DeltaContents
    THEN <<jsonStr[2]>>
    ELSE <<>>

\* What one line of a chunk adds to fullResponse.
LineContent(line) ==
    IF startsWith(line, DataPrefix) /\ line # DataDone
    THEN ParsedContent(substring(line, 6))
    ELSE <<>>

RECURSIVE LinesContent(_)
LinesContent(lines) ==
    IF lines = <<>> THEN <<>>
    ELSE LineContent(Head(lines)) \o LinesContent(Tail(lines))

\* What one chunk adds to fullResponse.
ChunkContent(chunk) == LinesContent(split(chunk, "\n"))

\* The save of the assistant message, by POST /chat and by POST /chat-stream
\* alike: nothing is saved without a session or for an empty text.
SavedAssistant(session, content) ==
    [saved |-> session /\ content # <<>>,
     content |-> IF session THEN content ELSE <<>>]

\* POST /chat-stream up to the read loop: the backend answers a stream.
\* aligned records that every chunk read so far ended at the end of a line.
StartChatStream(deltas, session) ==
    /\ req = Null
    /\ req' = [router |-> "chat-stream", deltas |-> deltas, session |-> session,
               stream |-> StreamOf(deltas), pos |-> 0, fullResponse |-> <<>>,
               aligned |-> TRUE]
    /\ resp' = Null
    /\ UNCHANGED <<now, email, active, organizationSessions, lastSwitch>>

\* One turn of the read loop: reader.read() hands over the next n bytes.
ReadChunk(n) ==
    /\ req # Null /\ req.router = "chat-stream"
    /\ req.pos + n <= Len(req.stream)
    /\ LET chunk == SubSeq(req.stream, req.pos + 1, req.pos + n) IN
       req' = [req EXCEPT
                 !.pos = req.pos + n,
                 !.fullResponse =
                    IF req.session THEN req.fullResponse \o ChunkContent(chunk)
                    ELSE req.fullResponse,
                 !.aligned = req.aligned /\ chunk[n] = "\n"]
    /\ UNCHANGED <<now, email, active, organizationSessions, resp, lastSwitch>>

\* reader.read() reports done: the collected text is saved and the response ends.
EndChatStream ==
    /\ req # Null /\ req.router = "chat-stream"
    /\ req.pos = Len(req.stream)
    /\ resp' = Response("chat-stream", "", 200, "",
                        [deltas |-> req.deltas, session |-> req.session,
                         aligned |-> req.aligned],
                        SavedAssistant(req.session, req.fullResponse))
    /\ req' = Null
    /\ UNCHANGED <<now, email, active, organizationSessions, lastSwitch>>

\* POST /chat: the backend answers the whole text as data.message.content.
ChatComplete(deltas, session) ==
    /\ req = Null
    /\ resp' = Response("chat", "", 200, "",
                        [deltas |-> deltas, session |-> session, aligned |-> TRUE],
                        SavedAssistant(session, deltas))
    /\ UNCHANGED <<now, email, active, organizationSessions, req, lastSwitch>>

NextChat ==
    \/ \E deltas \in DeltaSequences, session \in BOOLEAN : StartChatStream(deltas, session)
    \/ \E n \in 1..Len(StreamOf([i \in 1..MaxDeltas |-> "a"])) : ReadChunk(n)
    \/ EndChatStream
    \/ \E deltas \in DeltaSequences, session \in BOOLEAN : ChatComplete(deltas, session)

SpecChat == Init /\ [][NextChat]_vars

\* C20: whatever the chunks, the assistant text the streaming endpoint saves
\* is the concatenation of the stream's content deltas in order, which is what
\* the non-streaming endpoint saves for the same text.
C20_StreamReassembled ==
    (resp # Null /\ resp.op \in {"chat-stream", "chat"} /\ resp.input.session) =>
        resp.body = [saved |-> resp.input.deltas # <<>>, content |-> resp.input.deltas]

\* C20 for the streams every chunk of which ends at the end of a line.
C20_StreamReassembledAligned ==
    (resp # Null /\ resp.op \in {"chat-stream", "chat"} /\ resp.input.aligned) =>
        C20_StreamReassembled

\* ================================================ organization resolution
\* The resolver behind token verification, driven from every clock, email,
\* active-row and stored-session combination of InitGroundx, with either
\* tenant configuration lookup failing or not.
ResolveHeaders == {<<>>, BearerPrefix \o TokenOfU1, BearerPrefix \o TokenOfU2}

NextResolve ==
    \/ \E authHeader \in ResolveHeaders, fail \in BOOLEAN, failSwitched \in BOOLEAN :
            AuthenticateBearer(authHeader, TRUE, fail, failSwitched)
    \/ \E listing \in {l \in Listings : l.kind = "ok" => l.buckets = <<>>} :
            ListBuckets(listing)

SpecResolve == InitGroundx /\ [][NextResolve]_vars

\* C21: organization resolution never fails a request.  Every request whose
\* token the provider verified is handed on with a user and a context; the
\* middleware answers itself only when verification failed, threw, or the
\* provider client is unconfigured.  An error of the home lookup leaves a
\* non-privileged user without assignment: empty home fields, no organization.
\* An error of the override lookup leaves the home organization active.
C21_ResolutionNeverRaises ==
    /\ (resp # Null /\ resp.op = "auth") =>
          \/ VerificationFails(resp.input)
          \/ ~resp.input.configured
          \/ resp.input.answer.kind = "throws"
    /\ req # Null =>
          /\ req.user # Null /\ req.organizationContext # Null
          /\ (req.seen.fail /\ ~req.user.isQIG) =>
                /\ req.organizationContext.userOrganizationId = ""
                /\ req.organizationContext.userOrganizationName = <<>>
                /\ req.organizationContext.activeOrganizationId = ""
                /\ req.user.organization = Null
          /\ req.seen.failSwitched =>
                req.organizationContext.activeOrganizationId
                    = req.organizationContext.userOrganizationId

\* A non-privileged user was handed on although the home lookup failed.
C21_Witness ==
    /\ req # Null /\ req.seen.fail /\ ~req.user.isQIG
    /\ req.organizationContext.userOrganizationId = ""

\* The subject of the request in flight is privileged and holds a session
\* younger than 24 hours.
LiveSessionOfRequest ==
    /\ req # Null /\ "seen" \in DOMAIN req /\ req.user.isQIG
    /\ MapHas(organizationSessions, req.subject)
    /\ now - MapGet(organizationSessions, req.subject).timestamp < SessionTtlMs

\* C22: for a privileged subject with an unexpired session the active
\* organization is the override (id and display name) when tenant
\* configuration answers its active record, and the home organization when
\* the lookup fails or finds none; the request goes on and the home
\* organization is the sentinel organization either way.
C22_OverrideOrHome ==
    LiveSessionOfRequest =>
        LET organizationId ==
                MapGet(organizationSessions, req.subject).activeOrganizationId
            context == req.organizationContext
        IN /\ context.userOrganizationId = "qig-org"
           /\ context.userOrganizationName = NameQIG
           /\ context.isQIGAdmin
           /\ IF ~req.seen.failSwitched /\ organizationId \in active
              THEN /\ context.activeOrganizationId = organizationId
                   /\ context.activeOrganizationName = ClientNameOf(organizationId)
                   /\ req.user.organization.id = organizationId
              ELSE /\ context.activeOrganizationId = "qig-org"
                   /\ context.activeOrganizationName = NameQIG
                   /\ req.user.organization.id = "qig-org"

\* The override lookup failed for a live session; home stayed active.
C22_Witness ==
    /\ LiveSessionOfRequest /\ req.seen.failSwitched
    /\ MapGet(organizationSessions, req.subject).activeOrganizationId \in active
    /\ req.organizationContext.activeOrganizationId = "qig-org"

\* The override was resolved again for a live session.
C22_WitnessOverride ==
    /\ LiveSessionOfRequest /\ ~req.seen.failSwitched
    /\ req.organizationContext.activeOrganizationId = "org-42"

\* ============================================ concurrent requests, the store
\* Requests of privileged subjects served concurrently.  Node runs a handler
\* without interruption up to its next await, so a request is a sequence of
\* atomic steps cut at the awaits: the switch handler awaits the lookup of the
\* target organization before it writes the store; the resolver reads the
\* store, then awaits the lookup of the override organization.  Here req holds
\* the local state of each request slot and the number of requests begun,
\* resp is the last answer, and lastSwitch records per subject the last
\* completed write of its entry (Null for a removal).
MaxRequests == 4

Slots == {"p1", "p2"}

IdleSlot == [pc |-> "idle", subject |-> "", organizationId |-> "", orgSession |-> Null]

\* What the middleware hands on for a privileged subject.
AdminRequest(u) ==
    LET a == authenticateSupabaseUser(u, EmailAdmin, [data |-> <<>>, error |-> FALSE],
                                      FALSE, {}, 0, active)
    IN [router |-> "organizations", subject |-> u, user |-> a.user,
        organizationContext |-> a.organizationContext,
        userOrganizationInfo |-> a.userOrganizationInfo,
        sessionOrganizationId |-> a.sessionOrganizationId]

InitConcurrent ==
    /\ now = 0
    /\ email = [u \in Subjects |-> IF u = "u1" THEN EmailAdmin ELSE EmailAdminLong]
    /\ active = OrgIds
    /\ organizationSessions = {}
    /\ req = [slot |-> [p \in Slots |-> IdleSlot], served |-> 0]
    /\ resp = Null
    /\ lastSwitch = [u \in Subjects |-> Null]

\* A request begins in a free slot.
Begins(p) == req.slot[p].pc = "idle" /\ req.served < MaxRequests

TickConcurrent ==
    /\ now + TickMs <= MaxTicks * TickMs
    /\ now' = now + TickMs
    /\ UNCHANGED <<email, active, organizationSessions, req, resp, lastSwitch>>

\* POST /switch up to `await supabaseClient...single()`.
SwitchBegin(p, u, organizationId) ==
    /\ Begins(p)
    /\ req' = [slot |-> [req.slot EXCEPT ![p] =
                            [pc |-> "switch-await", subject |-> u,
                             organizationId |-> organizationId, orgSession |-> Null]],
               served |-> req.served + 1]
    /\ UNCHANGED <<now, email, active, organizationSessions, resp, lastSwitch>>

\* POST /switch from the answer of the lookup to the response.
SwitchEnd(p, fail) ==
    /\ req.slot[p].pc = "switch-await"
    /\ LET u == req.slot[p].subject
           organizationId == req.slot[p].organizationId
           h == switchHandler(AdminRequest(u), organizationId, fail,
                              organizationSessions, now, active)
       IN /\ organizationSessions' = h.sessions
          /\ resp' = [op |-> "switch", subject |-> u, status |-> h.status]
          /\ lastSwitch' =
                IF h.status = 200
                THEN [lastSwitch EXCEPT ![u] = [activeOrganizationId |-> organizationId,
                                                timestamp |-> now]]
                ELSE lastSwitch
    /\ req' = [req EXCEPT !.slot[p] = IdleSlot]
    /\ UNCHANGED <<now, email, active>>

\* POST /reset: no await between the checks and the removal.
ResetRequest(p, u) ==
    /\ Begins(p)
    /\ LET h == resetHandler(AdminRequest(u), organizationSessions) IN
       /\ organizationSessions' = h.sessions
       /\ resp' = [op |-> "reset", subject |-> u, status |-> h.status]
    /\ lastSwitch' = [lastSwitch EXCEPT ![u] = Null]
    /\ req' = [req EXCEPT !.served = @ + 1]
    /\ UNCHANGED <<now, email, active>>

\* The resolver from organizationSessions.get to the await of the override
\* lookup: an expired entry is removed, a live one is held by the request.
ReadBegin(p, u) ==
    /\ Begins(p)
    /\ LET organizationId ==
              SessionOrganizationId(TRUE, QIGOrganization, organizationSessions, u, now)
           after == SessionsAfterResolve(TRUE, QIGOrganization, organizationSessions, u, now)
       IN /\ organizationSessions' = after
          /\ lastSwitch' = IF after # organizationSessions
                           THEN [lastSwitch EXCEPT ![u] = Null] ELSE lastSwitch
          /\ IF organizationId # ""
             THEN /\ req' = [slot |-> [req.slot EXCEPT ![p] =
                                         [pc |-> "read-await", subject |-> u,
                                          organizationId |-> organizationId,
                                          orgSession |-> MapGet(organizationSessions, u)]],
                             served |-> req.served + 1]
                  /\ resp' = resp
             ELSE /\ req' = [req EXCEPT !.served = @ + 1]
                  /\ resp' = [op |-> "resolve", subject |-> u, status |-> 200,
                              orgSession |-> Null,
                              activeOrganizationId |-> QIGOrganization.id]
    /\ UNCHANGED <<now, email, active>>

\* The resolver from the answer of the override lookup on: the organization
\* of the entry it holds becomes active when the lookup answers a record.
ReadEnd(p, failSwitched) ==
    /\ req.slot[p].pc = "read-await"
    /\ LET u == req.slot[p].subject
           held == req.slot[p].orgSession
           activeOrganization ==
              ActiveOrganization(TRUE, QIGOrganization, MapSet({}, u, held), u,
                                 held.timestamp, active, failSwitched)
       IN resp' = [op |-> "resolve", subject |-> u, status |-> 200,
                   orgSession |-> held,
                   activeOrganizationId |-> activeOrganization.id]
    /\ req' = [req EXCEPT !.slot[p] = IdleSlot]
    /\ UNCHANGED <<now, email, active, organizationSessions, lastSwitch>>

NextConcurrent ==
    \/ TickConcurrent
    \/ \E p \in Slots, u \in Subjects, organizationId \in ToggledOrgIds :
            SwitchBegin(p, u, organizationId)
    \/ \E p \in Slots, fail \in BOOLEAN : SwitchEnd(p, fail)
    \/ \E p \in Slots, u \in Subjects : ResetRequest(p, u)
    \/ \E p \in Slots, u \in Subjects : ReadBegin(p, u)
    \/ \E p \in Slots, failSwitched \in BOOLEAN : ReadEnd(p, failSwitched)

SpecConcurrent == InitConcurrent /\ [][NextConcurrent]_vars

\* The step is a reader of slot p taking hold of an entry.
TakesHold(p) == req.slot[p].pc = "idle" /\ req'.slot[p].pc = "read-await"

\* C23: under every interleaving the entry of each subject is what the last
\* completed write for that subject left (a switch's value, or nothing after
\* a reset or a detected expiry), whatever requests of other subjects do; a
\* reader takes hold of exactly that entry, whole, keeps it unchanged while
\* other requests write, and reports as active the home organization or the
\* organization of the entry it holds.
C23_LastWriterWinsPerSubject ==
    /\ [](\A u \in Subjects : MapGet(organizationSessions, u) = lastSwitch[u])
    /\ [][\A p \in Slots :
            /\ TakesHold(p) =>
                  /\ lastSwitch[req'.slot[p].subject] # Null
                  /\ req'.slot[p].orgSession = lastSwitch[req'.slot[p].subject]
            /\ (req.slot[p].pc = "read-await" /\ req'.slot[p].pc = "read-await") =>
                  req'.slot[p] = req.slot[p]
            /\ (req.slot[p].pc = "read-await" /\ req'.slot[p].pc = "idle") =>
                  /\ resp'.op = "resolve" /\ resp'.subject = req.slot[p].subject
                  /\ resp'.orgSession = req.slot[p].orgSession
                  /\ resp'.activeOrganizationId \in
                        {QIGOrganization.id, req.slot[p].orgSession.activeOrganizationId}]_vars

\* A reader holds the old entry of a subject while a later switch of the same
\* subject has completed and another subject holds an entry of its own.
C23_Witness ==
    \E p \in Slots :
        /\ req.slot[p].pc = "read-await"
        /\ MapHas(organizationSessions, req.slot[p].subject)
        /\ req.slot[p].orgSession # MapGet(organizationSessions, req.slot[p].subject)
        /\ \E v \in Subjects \ {req.slot[p].subject} : MapHas(organizationSessions, v)

\* ================================================= frame of the store
\* The organization routes and the document routes served over one store:
\* the requests of both routers, the reads of the store and the environment.
InitFrame ==
    /\ now = 0
    /\ email = [u \in Subjects |-> IF u = "u1" THEN EmailAdmin ELSE EmailAdminLong]
    /\ active = OrgIds
    /\ organizationSessions = {}
    /\ req = Null
    /\ resp = Null
    /\ lastSwitch = Null

NextFrame ==
    \/ Tick
    \/ \E o \in ToggledOrgIds : ToggleActive(o)
    \/ \E u \in Subjects : AuthenticateReject("organizations", u, "invalid")
    \/ \E u \in Subjects, router \in {"organizations", "groundx"}, failSwitched \in BOOLEAN :
            Authenticate(router, u, FALSE, failSwitched, "")
    \/ \E organizationId \in RequestOrgIds, fail \in BOOLEAN :
            SwitchOrganization(organizationId, fail)
    \/ ResetOrganization
    \/ CurrentOrganization
    \/ \E u \in Subjects : GetOrganizationSession(u)
    \/ \E listing \in {l \in Listings : l.kind = "ok" => l.buckets = <<>>} :
            ListBuckets(listing)
    \/ \E found \in SearchAnswers : SearchDocuments("contracts", <<"1">>, found)
    \/ \E completed \in {"throws", "ok"} :
            RagAnswer("contracts", <<"1">>, [kind |-> "results", count |-> 1], completed)

SpecFrame == InitFrame /\ [][NextFrame]_vars

\* The step is the resolver reading the store for subject u.
ResolverReads(u) == req = Null /\ req' # Null /\ req'.subject = u

\* The step answers operation op for subject u.
Answers(op, u) == resp' # Null /\ resp'.op = op /\ resp'.subject = u

\* C24: the entry of a subject disappears only in a step that is an accepted
\* reset of that subject or a read for that subject (by the resolver or by
\* getOrganizationSession) that finds the entry at least 24 hours old; an
\* entry is created or changed only by an accepted switch of that subject,
\* which stores the requested organization and the current time; every other
\* step (a read within the window, a failed re-resolution, a rejected switch,
\* a bucket, search or RAG request, an operation of another subject, the
\* environment) leaves it as it was; clearing an entry twice is clearing it
\* once.
C24_StoreFrame ==
    [][ \A u \in Subjects :
          LET before == MapGet(organizationSessions, u)
              after == MapGet(organizationSessions', u) IN
          /\ (before # Null /\ after = Null) =>
                \/ Answers("reset", u) /\ resp'.status = 200
                \/ /\ ResolverReads(u) \/ Answers("getOrganizationSession", u)
                   /\ now - before.timestamp >= SessionTtlMs
          /\ (after # Null /\ after # before) =>
                /\ Answers("switch", u) /\ resp'.status = 200
                /\ after = [activeOrganizationId |-> resp'.input.organizationId,
                            timestamp |-> now]
          /\ clearOrganizationSession(clearOrganizationSession(organizationSessions', u), u)
                = clearOrganizationSession(organizationSessions', u)
          /\ Cardinality({e \in organizationSessions' : e.key = u}) <= 1
      ]_vars

\* C24 witness: a document request of a privileged subject is answered while
\* the subject's own entry and another subject's entry are in the store.
C24_Witness ==
    /\ resp # Null /\ resp.op \in {"buckets", "search", "rag"}
    /\ MapHas(organizationSessions, resp.subject)
    /\ \E v \in Subjects \ {resp.subject} : MapHas(organizationSessions, v)

\* C24 witness: a switch is rejected while the subject holds an entry.
C24_WitnessRejected ==
    /\ resp # Null /\ resp.op = "switch" /\ resp.status # 200
    /\ resp.input.previous # Null
    /\ MapGet(organizationSessions, resp.subject) = resp.input.previous

\* ============================================== the caller disconnects
\* Long requests with the caller's connection.  lastSwitch holds the state of
\* the transport: closed once the caller has gone away.  Neither handler
\* listens for the close of the request or passes an abort signal to the
\* upstream call, and writing to a closed response does not throw, so a
\* disconnect changes nothing in the request's own state.
InitDisconnect ==
    /\ now = 0
    /\ email = [u \in Subjects |-> IF u = "u1" THEN EmailAdmin ELSE EmailPlain]
    /\ active = OrgIds
    /\ organizationSessions = {}
    /\ req = Null
    /\ resp = Null
    /\ lastSwitch = [closed |-> FALSE]

\* The caller closes the connection while its request is in flight.
Disconnect ==
    /\ req # Null /\ ~lastSwitch.closed
    /\ lastSwitch' = [closed |-> TRUE]
    /\ UNCHANGED <<now, email, active, organizationSessions, req, resp>>

\* The next request arrives on a connection of its own.
Connect ==
    /\ req = Null /\ lastSwitch.closed
    /\ lastSwitch' = [closed |-> FALSE]
    /\ resp' = Null
    /\ UNCHANGED <<now, email, active, organizationSessions, req>>

\* Requests that reach the generation: retrieval has answered results.
GenerationInputs ==
    {in \in RagTurnInputs : in.body.messages = <<>> /\ ~in.body.includeThoughts}

\* POST /groundx/rag up to `await openaiClient.chat.completions.create`.
GenerationBegin(u, in) ==
    /\ req = Null /\ ~lastSwitch.closed
    /\ req' = [router |-> "rag", subject |-> u, user |-> AdminRequest(u).user, in |-> in]
    /\ resp' = Null
    /\ UNCHANGED <<now, email, active, organizationSessions, lastSwitch>>

\* POST /groundx/rag from the answer of the completion to res.json.
GenerationEnd(completed) ==
    /\ req # Null /\ req.router = "rag"
    /\ LET h == ragRoute(req.user, req.in.body, req.in.found, completed, now) IN
       resp' = Response("rag", req.subject, h.status, "",
                        [calls |-> h.calls, completed |-> completed], h.payload)
    /\ req' = Null
    /\ UNCHANGED <<now, email, active, organizationSessions, lastSwitch>>

NextDisconnect ==
    \/ Disconnect
    \/ Connect
    \/ \E u \in Subjects, in \in GenerationInputs : GenerationBegin(u, in)
    \/ \E completed \in Completions : GenerationEnd(completed)
    \/ \E deltas \in DeltaSequences :
            ~lastSwitch.closed /\ StartChatStream(deltas, TRUE)
    \/ \E n \in 1..Len(StreamOf([i \in 1..MaxDeltas |-> "a"])) : ReadChunk(n)
    \/ EndChatStream

SpecDisconnect == InitDisconnect /\ [][NextDisconnect]_vars

\* C25: once the caller has disconnected, the request in flight takes nothing
\* more from the completion and, when it ends, has produced no answer and
\* saved no assistant message.
C25_AbandonedOnDisconnect ==
    [][ (lastSwitch.closed /\ req # Null) =>
          /\ req' # Null => req' = req
          /\ req' = Null =>
                /\ resp'.op = "rag" => resp'.status # 200
                /\ resp'.op = "chat-stream" => ~resp'.body.saved
      ]_vars

\* C25 for the part the code keeps: a disconnect by itself changes neither
\* the request nor what has been answered.
C25_DisconnectUnobserved ==
    [][ (~lastSwitch.closed /\ lastSwitch'.closed) => (req' = req /\ resp' = resp) ]_vars

\* The streamed text is saved for a caller that went away before the stream
\* was read to its end.
C25_SavedAfterDisconnect ==
    /\ lastSwitch.closed /\ req = Null
    /\ resp # Null /\ resp.op = "chat-stream" /\ resp.body.saved

\* ================================== the Azure service and the event stream
\* chat.ts keeps the Azure auth service in the module variable azureAuth.
\* Here lastSwitch holds the process's configuration and that variable:
\* config is "valid", or names what validateConfig finds missing.
AzureConfigs == {"valid", "no-tenant", "no-secret"}

\* new ConfidentialClientApplication(...) inside createAzureAuthService: it
\* builds with a client id and a secret whatever the tenant; without a secret
\* the library may build or throw.
ConstructorOutcomes(config) == IF config = "no-secret" THEN BOOLEAN ELSE {TRUE}

\* Faulty variant: the service is validated before it is kept.
getAzureAuthServiceValidated(azureAuth, config, constructs) ==
    IF azureAuth # Null
    THEN [azureAuth |-> azureAuth, outcome |-> "service"]
    ELSE IF ~constructs
    THEN [azureAuth |-> Null, outcome |-> "throws-constructor"]
    ELSE IF config # "valid"
    THEN [azureAuth |-> Null, outcome |-> "throws-config"]
    ELSE [azureAuth |-> [config |-> config], outcome |-> "service"]

\* getAzureAuthService(): azureAuth is assigned before validateConfig() is
\* consulted, and a second call finds it assigned.
getAzureAuthService(azureAuth, config, constructs) ==
    IF azureAuth # Null
    THEN [azureAuth |-> azureAuth, outcome |-> "service"]
    ELSE IF ~constructs
    THEN [azureAuth |-> Null, outcome |-> "throws-constructor"]
    ELSE IF config # "valid"
    THEN [azureAuth |-> [config |-> config], outcome |-> "throws-config"]
    ELSE [azureAuth |-> [config |-> config], outcome |-> "service"]

\* authService.getAccessToken(): a token is obtained only with a valid
\* configuration, and may fail then too.
TokenOutcomes(config) == IF config = "valid" THEN BOOLEAN ELSE {FALSE}

ErrorEvent == "data: {\"error\":\"Stream failed\"}\n\n"

\* Faulty variant: the response is ended without the error event.
streamFailedSilent(r, failure) ==
    [r EXCEPT !.ends = @ + 1, !.failure = failure]

\* catch (error) of /chat-stream: res.write(error event); res.end().
streamFailed(r, failure) ==
    [r EXCEPT !.events = Append(@, ErrorEvent), !.ends = @ + 1, !.failure = failure]

InitSse ==
    /\ now = 0
    /\ email = [u \in Subjects |-> IF u = "u1" THEN EmailAdmin ELSE EmailPlain]
    /\ active = OrgIds
    /\ organizationSessions = {}
    /\ req = Null
    /\ resp = Null
    /\ lastSwitch \in [config : AzureConfigs, azureAuth : {Null}]

\* The answer of a finished /chat-stream request.
SseAnswer(r) ==
    [op |-> "chat-stream", status |-> r.status, failure |-> r.failure,
     handed |-> r.handed, events |-> r.events, ends |-> r.ends,
     session |-> r.session, saved |-> r.saved,
     includeThoughtProcess |-> r.includeThoughtProcess]

\* POST /chat-stream up to res.writeHead(200, ...): a request naming a session
\* is answered 401 as JSON when verifyUser answers null.  The request's
\* include_thought_process travels to the backend as a header.
SseOpen(session, verified, includeThoughtProcess) ==
    /\ req = Null
    /\ LET r == [router |-> "sse", pc |-> "token", status |-> 200, events |-> <<>>,
                 ends |-> 0, failure |-> "", handed |-> "", session |-> session,
                 saved |-> FALSE, includeThoughtProcess |-> includeThoughtProcess]
       IN IF session /\ ~verified
          THEN /\ resp' = SseAnswer([r EXCEPT !.status = 401, !.ends = 1])
               /\ req' = req
          ELSE /\ req' = r
               /\ resp' = Null
    /\ UNCHANGED <<now, email, active, organizationSessions, lastSwitch>>

\* getAzureAuthService() and await authService.getAccessToken().
SseToken(constructs, tokenOk) ==
    /\ req # Null /\ req.router = "sse" /\ req.pc = "token"
    /\ LET g == getAzureAuthService(lastSwitch.azureAuth, lastSwitch.config, constructs)
           r == [req EXCEPT !.handed = g.outcome]
       IN /\ lastSwitch' = [lastSwitch EXCEPT !.azureAuth = g.azureAuth]
          /\ IF g.outcome = "service" /\ tokenOk
             THEN req' = [r EXCEPT !.pc = "fetch"] /\ resp' = resp
             ELSE /\ resp' = SseAnswer(streamFailed(r, IF g.outcome = "service"
                                                       THEN "token" ELSE g.outcome))
                  /\ req' = Null
    /\ UNCHANGED <<now, email, active, organizationSessions>>

\* await fetch(targetUrl, ...) and the test of response.ok; a response
\* without a body is ended at once.
SseFetch(outcome) ==
    /\ req # Null /\ req.router = "sse" /\ req.pc = "fetch"
    /\ IF outcome = "ok"
       THEN req' = [req EXCEPT !.pc = "read"] /\ resp' = resp
       ELSE /\ resp' = SseAnswer(IF outcome = "no-body"
                                 THEN [req EXCEPT !.ends = @ + 1]
                                 ELSE streamFailed(req, outcome))
            /\ req' = Null
    /\ UNCHANGED <<now, email, active, organizationSessions, lastSwitch>>

\* One turn of the read loop: a chunk is written through, the stream is done,
\* or reader.read() throws.  After the loop the response is ended, at once
\* when there is no session or nothing was collected.
SseRead(outcome) ==
    /\ req # Null /\ req.router = "sse" /\ req.pc = "read"
    /\ IF outcome \in DeltaContents
       THEN /\ Len(req.events) < MaxDeltas
            /\ req' = [req EXCEPT !.events = Append(@, outcome)]
            /\ resp' = resp
       ELSE IF outcome = "done" /\ req.session /\ req.events # <<>>
       THEN req' = [req EXCEPT !.pc = "save"] /\ resp' = resp
       ELSE /\ resp' = SseAnswer(IF outcome = "done"
                                 THEN [req EXCEPT !.ends = @ + 1]
                                 ELSE streamFailed(req, outcome))
            /\ req' = Null
    /\ UNCHANGED <<now, email, active, organizationSessions, lastSwitch>>

\* await saveChatMessage(...) inside its own try/catch, then res.end().
SseSave(saveOk) ==
    /\ req # Null /\ req.router = "sse" /\ req.pc = "save"
    /\ resp' = SseAnswer([req EXCEPT !.saved = saveOk, !.ends = @ + 1])
    /\ req' = Null
    /\ UNCHANGED <<now, email, active, organizationSessions, lastSwitch>>

\* POST /chat without a session: the service, the token, the backend call.
ChatRequest(constructs, tokenOk, backendOk) ==
    /\ req = Null
    /\ LET g == getAzureAuthService(lastSwitch.azureAuth, lastSwitch.config, constructs)
           ok == g.outcome = "service" /\ tokenOk /\ backendOk
       IN /\ lastSwitch' = [lastSwitch EXCEPT !.azureAuth = g.azureAuth]
          /\ resp' = [op |-> "chat", status |-> IF ok THEN 200 ELSE 500,
                      failure |-> IF g.outcome # "service" THEN g.outcome
                                  ELSE IF ~tokenOk THEN "token"
                                  ELSE IF ~backendOk THEN "not-ok" ELSE "",
                      handed |-> g.outcome, events |-> <<>>, ends |-> 1,
                      session |-> FALSE, saved |-> FALSE,
                      includeThoughtProcess |-> FALSE]
    /\ UNCHANGED <<now, email, active, organizationSessions, req>>

NextSse ==
    \/ \E session \in BOOLEAN, verified \in BOOLEAN, includeThoughtProcess \in BOOLEAN :
            SseOpen(session, verified, includeThoughtProcess)
    \/ \E constructs \in ConstructorOutcomes(lastSwitch.config),
          tokenOk \in TokenOutcomes(lastSwitch.config) : SseToken(constructs, tokenOk)
    \/ \E outcome \in {"ok", "not-ok", "throws", "no-body"} : SseFetch(outcome)
    \/ \E outcome \in DeltaContents \cup {"done", "read-throws"} : SseRead(outcome)
    \/ \E saveOk \in BOOLEAN : SseSave(saveOk)
    \/ \E constructs \in ConstructorOutcomes(lastSwitch.config),
          tokenOk \in TokenOutcomes(lastSwitch.config), backendOk \in BOOLEAN :
            ChatRequest(constructs, tokenOk, backendOk)

SpecSse == InitSse /\ [][NextSse]_vars

\* C26: a /chat-stream request that failed after the stream was opened (the
\* service or the token, the backend call, a non-success status, a read) was
\* answered with status 200, its last event the 'Stream failed' error event,
\* written once, and the response ended exactly once; a request in flight has
\* not been ended.
C26_FailureInBand ==
    /\ (resp # Null /\ resp.op = "chat-stream" /\ resp.failure # "") =>
          /\ resp.status = 200
          /\ resp.events # <<>> /\ resp.events[Len(resp.events)] = ErrorEvent
          /\ Cardinality({i \in 1..Len(resp.events) : resp.events[i] = ErrorEvent}) = 1
          /\ resp.ends = 1
    /\ (resp # Null /\ resp.op = "chat-stream" /\ resp.failure = "") =>
          /\ resp.ends = 1
          /\ resp.status \in {200, 401}
          /\ \A i \in 1..Len(resp.events) : resp.events[i] # ErrorEvent
    /\ (req # Null /\ req.router = "sse") => req.ends = 0

\* C26 witness: the backend answers a non-success status.
C26_Witness ==
    resp # Null /\ resp.op = "chat-stream" /\ resp.failure = "not-ok"

\* C26 witness: the read fails after a chunk was written through.
C26_WitnessMidStream ==
    /\ resp # Null /\ resp.op = "chat-stream" /\ resp.failure = "read-throws"
    /\ Len(resp.events) > 1

\* C29: with a configuration that fails validation no call of
\* getAzureAuthService hands out the service.
C29_InvalidConfigNeverHandedOut ==
    (resp # Null /\ resp.status # 401 /\ lastSwitch.config # "valid") =>
        resp.handed # "service"

\* C29 for the first call: while no service is kept, a call under a
\* configuration that fails validation throws.
C29_FirstCallFails ==
    [][ (lastSwitch.azureAuth = Null /\ lastSwitch.config # "valid"
            /\ resp' # Null /\ resp' # resp /\ resp'.status # 401) =>
          resp'.handed \in {"throws-config", "throws-constructor"} ]_vars

\* ================================================ optional authentication
\* optionalSupabaseAuth: next() at once without a bearer token; otherwise the
\* request is handed to authenticateSupabaseUser together with res and next,
\* which answers a failed verification itself and throws nothing, so that the
\* catch of the optional middleware is not entered.
optionalSupabaseAuth(authHeader, configured, answer, mail, clientConfigs, failSwitched, sessions, t, act) ==
    IF authHeader = <<>> \/ ~startsWith(authHeader, BearerPrefix)
    THEN [next |-> TRUE, status |-> 200, error |-> "", calls |-> <<>>,
          userId |-> "", user |-> Null, organizationContext |-> Null,
          userOrganizationInfo |-> Null, sessionOrganizationId |-> "",
          sessions |-> sessions]
    ELSE authenticateBearer(authHeader, configured, answer, mail, clientConfigs,
                            failSwitched, sessions, t, act)

\* router.use(optionalSupabaseAuth); router.use(handleOrganizationOverride) of
\* the database manager router.  nexts counts the calls of next().
OptionalAuth(authHeader, configured, fail) ==
    /\ req = Null
    /\ \E answer \in GetUserAnswers(substring(authHeader, 7)) :
       \E u \in Subjects : \E clientConfigs \in ClientConfigsCreatedBy(active, u, fail) :
          /\ answer.id \in {"", u}
          /\ LET a == optionalSupabaseAuth(authHeader, configured, answer, email,
                                           clientConfigs, FALSE,
                                           organizationSessions, now, active)
                 seen == [authHeader |-> authHeader, configured |-> configured,
                          answer |-> answer, calls |-> a.calls, fail |-> fail]
             IN /\ req' = IF a.next
                          THEN [router |-> "database-manager", subject |-> a.userId,
                                user |-> IF a.user = Null THEN Null
                                         ELSE handleOrganizationOverride(a.user, ""),
                                organizationContext |-> a.organizationContext,
                                nexts |-> 1, seen |-> seen]
                          ELSE Null
                /\ resp' = IF a.next
                           THEN Null
                           ELSE Response("optional-auth", a.userId, a.status, a.error,
                                         seen, [nexts |-> 0])
                /\ organizationSessions' = a.sessions
    /\ UNCHANGED <<now, email, active, lastSwitch>>

\* A route of the database manager router answers the request handed on.
DatabaseManagerRoute ==
    /\ req # Null /\ req.router = "database-manager"
    /\ resp' = Response("database-manager", req.subject, 200, "", req.seen,
                        [user |-> req.user])
    /\ req' = Null
    /\ UNCHANGED <<now, email, active, organizationSessions, lastSwitch>>

NextOptional ==
    \/ \E u \in Subjects : \E e \in EmailsOf(u) : ChangeEmail(u, e)
    \/ \E o \in ToggledOrgIds : ToggleActive(o)
    \/ \E authHeader \in AuthHeaders, configured \in BOOLEAN, fail \in BOOLEAN :
            OptionalAuth(authHeader, configured, fail)
    \/ DatabaseManagerRoute

SpecOptional == Init /\ [][NextOptional]_vars

\* C27: optional authentication answers no request itself; a request without
\* a bearer token, and one whose token fails verification, reaches the route
\* after exactly one next(), without a user.
C27_OptionalNeverFails ==
    /\ ~(resp # Null /\ resp.op = "optional-auth")
    /\ (req # Null /\ req.router = "database-manager") =>
          /\ req.nexts = 1
          /\ VerificationFails(req.seen) => req.user = Null

\* C27 for requests without a bearer token: never answered by the
\* middleware, handed on after one next() without user or context.
C27_NoBearerPassesOn ==
    /\ (resp # Null /\ resp.op = "optional-auth") => ~NoBearer(resp.input.authHeader)
    /\ (req # Null /\ req.router = "database-manager") =>
          /\ req.nexts = 1
          /\ NoBearer(req.seen.authHeader) =>
                /\ req.user = Null /\ req.organizationContext = Null
                /\ req.seen.calls = <<>>

\* A bearer token the identity provider rejects is answered 401 by the
\* optional middleware and next() is not called.
C27_RejectedTokenAnswered ==
    /\ resp # Null /\ resp.op = "optional-auth" /\ resp.status = 401
    /\ resp.input.answer.kind \in {"error", "nouser"}
    /\ resp.body.nexts = 0 /\ req = Null

\* ============================================ tenant configuration cache
\* ClientConfigurationService: configCache and cacheExpiry in front of the
\* client_configurations table.  Here lastSwitch holds the table (per
\* organization the version of its row, 0 for no row), the two Maps and the
\* version of the last create or update that has completed; req holds the
\* calls in flight, cut at their awaits.
MaxUpdates == 2

CacheTtlMs == 5 * 60 * 1000

\* The clock of this part advances in half cache lifetimes.
CacheTickMs == CacheTtlMs \div 2

CacheOrgIds == {"org-austin", "org-42"}

\* Faulty variant: an entry is served up to and beyond its expiry.
getFromCacheUnexpiring(configCache, cacheExpiry, organizationId, t) ==
    [config |-> MapGet(configCache, organizationId),
     configCache |-> configCache, cacheExpiry |-> cacheExpiry]

\* getFromCache(organizationId) at time t: the entry, or null after clearing
\* an entry whose expiry lies before t.
getFromCache(configCache, cacheExpiry, organizationId, t) ==
    LET expiry == MapGet(cacheExpiry, organizationId) IN
    IF expiry # Null /\ t > expiry.at
    THEN [config |-> Null,
          configCache |-> MapDelete(configCache, organizationId),
          cacheExpiry |-> MapDelete(cacheExpiry, organizationId)]
    ELSE [config |-> MapGet(configCache, organizationId),
          configCache |-> configCache, cacheExpiry |-> cacheExpiry]

IdleCall == [pc |-> "idle", organizationId |-> "", data |-> Null]

InitCache ==
    /\ now = 0
    /\ email = [u \in Subjects |-> IF u = "u1" THEN EmailAdmin ELSE EmailPlain]
    /\ active = OrgIds
    /\ organizationSessions = {}
    /\ req = [p \in Slots |-> IdleCall]
    /\ resp = Null
    /\ lastSwitch = [db |-> [o \in CacheOrgIds |-> IF o = "org-42" THEN 1 ELSE 0],
                     configCache |-> {}, cacheExpiry |-> {},
                     completed |-> [o \in CacheOrgIds |-> 0]]

TickCache ==
    /\ now + CacheTickMs <= MaxTicks * CacheTickMs
    /\ now' = now + CacheTickMs
    /\ UNCHANGED <<email, active, organizationSessions, req, resp, lastSwitch>>

\* getClientConfig up to its await: a cache hit is returned at once.
GetBegin(p, organizationId) ==
    /\ req[p].pc = "idle"
    /\ LET c == getFromCache(lastSwitch.configCache, lastSwitch.cacheExpiry,
                             organizationId, now)
       IN /\ lastSwitch' = [lastSwitch EXCEPT !.configCache = c.configCache,
                                              !.cacheExpiry = c.cacheExpiry]
          /\ IF c.config # Null
             THEN /\ resp' = [op |-> "getClientConfig", organizationId |-> organizationId,
                              source |-> "cache", config |-> c.config, at |-> now,
                              expiry |-> MapGet(lastSwitch.cacheExpiry, organizationId).at,
                              completed |-> lastSwitch.completed[organizationId]]
                  /\ req' = req
             ELSE /\ req' = [req EXCEPT ![p] = [pc |-> "get-await",
                                                organizationId |-> organizationId,
                                                data |-> Null]]
                  /\ resp' = resp
    /\ UNCHANGED <<now, email, active, organizationSessions>>

\* The table answers the select of a pending getClientConfig.
GetQuery(p) ==
    /\ req[p].pc = "get-await"
    /\ LET version == lastSwitch.db[req[p].organizationId] IN
       req' = [req EXCEPT ![p].pc = "get-answered",
                          ![p].data = IF version = 0 THEN Null
                                      ELSE [version |-> version]]
    /\ UNCHANGED <<now, email, active, organizationSessions, resp, lastSwitch>>

\* getClientConfig after its await: a row is cached and returned.
GetEnd(p) ==
    /\ req[p].pc = "get-answered"
    /\ LET organizationId == req[p].organizationId
           data == req[p].data
       IN /\ lastSwitch' =
                IF data = Null THEN lastSwitch
                ELSE [lastSwitch EXCEPT
                        !.configCache = MapSet(@, organizationId, data),
                        !.cacheExpiry = MapSet(@, organizationId,
                                               [at |-> now + CacheTtlMs])]
          /\ resp' = [op |-> "getClientConfig", organizationId |-> organizationId,
                      source |-> "table", config |-> data, at |-> now,
                      expiry |-> now + CacheTtlMs,
                      completed |-> lastSwitch.completed[organizationId]]
    /\ req' = [req EXCEPT ![p] = IdleCall]
    /\ UNCHANGED <<now, email, active, organizationSessions>>

\* createClientConfig (no row yet) or updateClientConfig (a row) reaches the
\* table: the row gets its next version, or the statement fails.
WriteConfig(p, organizationId, fail) ==
    /\ req[p].pc = "idle"
    /\ lastSwitch.db[organizationId] < MaxUpdates
    /\ LET version == lastSwitch.db[organizationId] + 1 IN
       IF fail
       THEN /\ req' = [req EXCEPT ![p] = [pc |-> "write-answered",
                                          organizationId |-> organizationId,
                                          data |-> Null]]
            /\ lastSwitch' = lastSwitch
       ELSE /\ req' = [req EXCEPT ![p] = [pc |-> "write-answered",
                                          organizationId |-> organizationId,
                                          data |-> [version |-> version]]]
            /\ lastSwitch' = [lastSwitch EXCEPT !.db[organizationId] = version]
    /\ UNCHANGED <<now, email, active, organizationSessions, resp>>

\* createClientConfig / updateClientConfig after the await: on success the
\* cache entry of the organization is cleared and the row returned.
WriteEnd(p) ==
    /\ req[p].pc = "write-answered"
    /\ LET organizationId == req[p].organizationId
           data == req[p].data
       IN /\ lastSwitch' =
                IF data = Null THEN lastSwitch
                ELSE [lastSwitch EXCEPT
                        !.configCache = MapDelete(@, organizationId),
                        !.cacheExpiry = MapDelete(@, organizationId),
                        !.completed[organizationId] = data.version]
          /\ resp' = [op |-> "updateClientConfig", organizationId |-> organizationId,
                      source |-> "table", config |-> data, at |-> now,
                      expiry |-> now,
                      completed |-> IF data = Null
                                    THEN lastSwitch.completed[organizationId]
                                    ELSE data.version]
    /\ req' = [req EXCEPT ![p] = IdleCall]
    /\ UNCHANGED <<now, email, active, organizationSessions>>

NextCache ==
    \/ TickCache
    \/ \E p \in Slots, organizationId \in CacheOrgIds : GetBegin(p, organizationId)
    \/ \E p \in Slots : GetQuery(p)
    \/ \E p \in Slots : GetEnd(p)
    \/ \E p \in Slots, organizationId \in CacheOrgIds, fail \in BOOLEAN :
            WriteConfig(p, organizationId, fail)
    \/ \E p \in Slots : WriteEnd(p)

SpecCache == InitCache /\ [][NextCache]_vars

\* C28: a configuration getClientConfig returns from the cache is not older
\* than the last create or update of that organization that had completed
\* when the call was made, and is not past its expiry.
C28_NoStaleConfigFromCache ==
    (resp # Null /\ resp.op = "getClientConfig" /\ resp.source = "cache") =>
        /\ resp.config.version >= resp.completed
        /\ resp.at <= resp.expiry

\* C28 for the expiry alone: an entry is served from the cache up to five
\* minutes after it was stored and never later, and the two Maps hold the
\* same organizations.
C28_CacheNeverPastExpiry ==
    /\ (resp # Null /\ resp.op = "getClientConfig" /\ resp.source = "cache") =>
          resp.at <= resp.expiry
    /\ \A o \in CacheOrgIds :
          MapHas(lastSwitch.configCache, o) <=> MapHas(lastSwitch.cacheExpiry, o)
    /\ \A o \in CacheOrgIds :
          MapHas(lastSwitch.cacheExpiry, o) =>
              MapGet(lastSwitch.cacheExpiry, o).at <= now + CacheTtlMs

\* The cache serves the configuration an update has replaced, after the
\* update has completed.
C28_StaleServed ==
    /\ resp # Null /\ resp.op = "getClientConfig" /\ resp.source = "cache"
    /\ resp.config.version < resp.completed

\* ===================================================== chat transcripts
\* The chat_sessions and chat_messages tables behind the chat-sessions router
\* and saveChatMessage.  Here lastSwitch holds the two tables; req holds an
\* add-message request between its ownership query and its insert; resp is
\* the last answer, with the caller verifyUser found as its subject.
MaxMessages == 2

\* The ids the table gives to new sessions, in the order it gives them; an id
\* is never given twice.
SessionIdSeq == <<"s1", "s2">>

SessionIds == {SessionIdSeq[i] : i \in 1..Len(SessionIdSeq)}

Titles == {"New Chat", "renamed"}

\* Faulty variant: the session is looked up by id alone.
SessionById(chat_sessions, sessionId, userId) ==
    {session \in chat_sessions : session.id = sessionId}

\* .from('chat_sessions')....eq('id', sessionId).eq('user_id', user.id)
SessionOfUser(chat_sessions, sessionId, userId) ==
    {session \in chat_sessions : session.id = sessionId /\ session.user_id = userId}

\* Rows of chat_messages outside the given sessions (foreign key cascade).
MessagesOutside(chat_messages, ids) ==
    LET Kept(message) == message.session_id \notin ids
    IN SelectSeq(chat_messages, Kept)

MessagesOf(chat_messages, sessionId) ==
    LET Of(message) == message.session_id = sessionId
    IN SelectSeq(chat_messages, Of)

\* .update({ updated_at }).eq('id', sessionId)
Touched(chat_sessions, sessionId, t) ==
    {IF session.id = sessionId THEN [session EXCEPT !.updated_at = t] ELSE session :
        session \in chat_sessions}

InitTranscript ==
    /\ now = 0
    /\ email = [u \in Subjects |-> IF u = "u1" THEN EmailAdmin ELSE EmailPlain]
    /\ active = OrgIds
    /\ organizationSessions = {}
    /\ req = Null
    /\ resp = Null
    /\ lastSwitch = [chat_sessions |-> {}, chat_messages |-> <<>>, issued |-> 0]

\* The owner of a session id in the tables, "" when there is no such session.
OwnerOf(chat_sessions, sessionId) ==
    IF \E session \in chat_sessions : session.id = sessionId
    THEN (CHOOSE session \in chat_sessions : session.id = sessionId).user_id
    ELSE ""

\* An answer, kept as the caller it answers and the owners of what it
\* carries: of its sessions, and of the sessions of its messages.
TranscriptAnswer(op, userId, status, sessionId, body) ==
    [op |-> op, subject |-> userId, status |-> status, sessionId |-> sessionId,
     owners |-> IF body = Null THEN {}
                ELSE {session.user_id : session \in body.sessions}
                     \cup {OwnerOf(lastSwitch.chat_sessions, body.messages[i].session_id) :
                              i \in 1..Len(body.messages)}]

\* Time passes, once: one later instant tells a row that was touched from one
\* that was not.
TickTranscript ==
    /\ now = 0
    /\ now' = now + TickMs
    /\ UNCHANGED <<email, active, organizationSessions, req, resp, lastSwitch>>

\* A request verifyUser finds no user for: 401 before any query.
Unauthenticated(sessionId) ==
    /\ resp' = TranscriptAnswer("unauthenticated", "", 401, sessionId, Null)
    /\ UNCHANGED <<now, email, active, organizationSessions, req, lastSwitch>>

\* GET /sessions
ListSessions(u) ==
    /\ resp' = TranscriptAnswer("list", u, 200, "",
                  [sessions |-> {session \in lastSwitch.chat_sessions :
                                    session.user_id = u},
                   messages |-> <<>>])
    /\ UNCHANGED <<now, email, active, organizationSessions, req, lastSwitch>>

\* POST /sessions: a row with a fresh id, owned by the caller.
CreateSession(u) ==
    /\ lastSwitch.issued < Len(SessionIdSeq)
    /\ LET sessionId == SessionIdSeq[lastSwitch.issued + 1]
           session == [id |-> sessionId, user_id |-> u, title |-> "New Chat",
                       updated_at |-> now]
       IN /\ lastSwitch' = [lastSwitch EXCEPT !.chat_sessions = @ \cup {session},
                                              !.issued = @ + 1]
          /\ resp' = TranscriptAnswer("create", u, 200, sessionId,
                                      [sessions |-> {session}, messages |-> <<>>])
    /\ UNCHANGED <<now, email, active, organizationSessions, req>>

\* GET /sessions/:sessionId/messages
ReadMessages(u, sessionId) ==
    /\ LET owned == SessionOfUser(lastSwitch.chat_sessions, sessionId, u) IN
       resp' = IF Cardinality(owned) # 1
               THEN TranscriptAnswer("messages", u, 404, sessionId, Null)
               ELSE TranscriptAnswer("messages", u, 200, sessionId,
                       [sessions |-> {},
                        messages |-> MessagesOf(lastSwitch.chat_messages, sessionId)])
    /\ UNCHANGED <<now, email, active, organizationSessions, req, lastSwitch>>

\* POST /sessions/:sessionId/messages and saveChatMessage up to the insert:
\* the ownership query.  via names the route; only the messages route
\* answers 404, chat and chat-stream go on without saving.
AddVerify(u, sessionId, role, via) ==
    /\ req = Null
    /\ LET owned == SessionOfUser(lastSwitch.chat_sessions, sessionId, u) IN
       IF Cardinality(owned) # 1
       THEN /\ resp' = TranscriptAnswer(via, u, IF via = "add" THEN 404 ELSE 200,
                                        sessionId, Null)
            /\ req' = req
       ELSE /\ req' = [router |-> "chat-sessions", subject |-> u,
                       sessionId |-> sessionId, role |-> role, via |-> via]
            /\ resp' = resp
    /\ UNCHANGED <<now, email, active, organizationSessions, lastSwitch>>

\* The insert into chat_messages and the update of the session's updated_at;
\* the insert fails when the session is gone by then.
AddInsert(fail) ==
    /\ req # Null /\ req.router = "chat-sessions"
    /\ LET exists == \E session \in lastSwitch.chat_sessions : session.id = req.sessionId
           message == [session_id |-> req.sessionId, role |-> req.role,
                       content |-> "text"]
       IN IF fail \/ ~exists \/ Len(lastSwitch.chat_messages) >= MaxMessages
          THEN /\ resp' = TranscriptAnswer(req.via, req.subject,
                                           IF req.via = "add" THEN 500 ELSE 200,
                                           req.sessionId, Null)
               /\ lastSwitch' = lastSwitch
          ELSE /\ lastSwitch' =
                     [lastSwitch EXCEPT
                        !.chat_sessions = Touched(@, req.sessionId, now),
                        !.chat_messages = Append(@, message)]
               /\ resp' = TranscriptAnswer(req.via, req.subject, 200, req.sessionId,
                                           [sessions |-> {}, messages |-> <<message>>])
    /\ req' = Null
    /\ UNCHANGED <<now, email, active, organizationSessions>>

\* PUT /sessions/:sessionId
RenameSession(u, sessionId, title) ==
    /\ LET owned == SessionOfUser(lastSwitch.chat_sessions, sessionId, u) IN
       IF Cardinality(owned) # 1
       THEN /\ resp' = TranscriptAnswer("rename", u, 500, sessionId, Null)
            /\ lastSwitch' = lastSwitch
       ELSE LET session == [(CHOOSE o \in owned : TRUE) EXCEPT
                                !.title = title, !.updated_at = now]
            IN /\ lastSwitch' = [lastSwitch EXCEPT
                                   !.chat_sessions = (@ \ owned) \cup {session}]
               /\ resp' = TranscriptAnswer("rename", u, 200, sessionId,
                                           [sessions |-> {session}, messages |-> <<>>])
    /\ UNCHANGED <<now, email, active, organizationSessions, req>>

\* DELETE /sessions/:sessionId: answered 200 whatever was deleted.
DeleteSession(u, sessionId) ==
    /\ LET owned == SessionOfUser(lastSwitch.chat_sessions, sessionId, u) IN
       /\ lastSwitch' =
             [lastSwitch EXCEPT
                !.chat_sessions = @ \ owned,
                !.chat_messages = MessagesOutside(@, {session.id : session \in owned})]
       /\ resp' = TranscriptAnswer("delete", u, 200, sessionId, Null)
    /\ UNCHANGED <<now, email, active, organizationSessions, req>>

NextTranscript ==
    \/ TickTranscript
    \/ \E sessionId \in SessionIds : Unauthenticated(sessionId)
    \/ \E u \in Subjects : ListSessions(u)
    \/ \E u \in Subjects : CreateSession(u)
    \/ \E u \in Subjects, sessionId \in SessionIds : ReadMessages(u, sessionId)
    \/ \E u \in Subjects, sessionId \in SessionIds :
            \/ AddVerify(u, sessionId, "user", "add")
            \/ AddVerify(u, sessionId, "user", "chat")
    \/ \E fail \in BOOLEAN : AddInsert(fail)
    \/ \E u \in Subjects, sessionId \in SessionIds, title \in Titles :
            RenameSession(u, sessionId, title)
    \/ \E u \in Subjects, sessionId \in SessionIds : DeleteSession(u, sessionId)

SpecTranscript == InitTranscript /\ [][NextTranscript]_vars

\* The caller on whose behalf the step acts.
CallerOfStep == IF req # Null /\ req' = Null THEN req.subject ELSE resp'.subject

\* C30: every step that changes the tables acts for a caller who owns every
\* session it changes or removes and the session of every message it adds or
\* removes; every session an answer carries is owned by the caller it
\* answers, and so is the session of every message it carries; no session
\* ever changes its owner.
C30_OwnerOnly ==
    [][ LET before == lastSwitch.chat_sessions
            after == lastSwitch'.chat_sessions IN
        /\ \A session \in before :
              session \notin after => session.user_id = CallerOfStep
        /\ \A session \in after :
              session \notin before => session.user_id = CallerOfStep
        /\ \A sessionId \in SessionIds :
              (OwnerOf(before, sessionId) # "" /\ OwnerOf(after, sessionId) # "") =>
                  OwnerOf(after, sessionId) = OwnerOf(before, sessionId)
        /\ \A sessionId \in SessionIds :
              MessagesOf(lastSwitch'.chat_messages, sessionId)
                    # MessagesOf(lastSwitch.chat_messages, sessionId) =>
                  OwnerOf(before, sessionId) = CallerOfStep
        /\ resp' # Null => resp'.owners \subseteq {resp'.subject}
      ]_vars

\* C30 witness: a caller asks for the messages of a session of another
\* caller that holds messages, and is answered 404.
C30_Witness ==
    /\ resp # Null /\ resp.op = "messages" /\ resp.status = 404
    /\ OwnerOf(lastSwitch.chat_sessions, resp.sessionId) \notin {"", resp.subject}
    /\ MessagesOf(lastSwitch.chat_messages, resp.sessionId) # <<>>

\* C30 witness: a delete for a session of another caller is answered 200 and
\* the session and its messages are still there.
C30_WitnessDelete ==
    /\ resp # Null /\ resp.op = "delete" /\ resp.status = 200
    /\ OwnerOf(lastSwitch.chat_sessions, resp.sessionId) \notin {"", resp.subject}
    /\ MessagesOf(lastSwitch.chat_messages, resp.sessionId) # <<>>

====
